---------------------------- MODULE Spec2Model ----------------------------
(***************************************************************************)
(* A model of backend/server.py, the REST backend of the accountability    *)
(* tracker: the document store's collections, the request handlers that    *)
(* read and write them, and the two derived views (dashboard summary and   *)
(* weekly review).                                                         *)
(*                                                                         *)
(* Conventions.                                                            *)
(*  - A calendar date (datetime.date) is its proleptic Gregorian ordinal,  *)
(*    as date.toordinal() gives it.                                        *)
(*  - A day text "YYYY-MM-DD" is the record [y, m, d] of its three         *)
(*    numbers; a text whose numbers name no calendar day (month 13) is a   *)
(*    text date.fromisoformat rejects.  The empty text is EmptyText.       *)
(*    Texts of this shape compare as the store compares strings:           *)
(*    lexicographically.                                                   *)
(*  - A timestamp (now_utc().isoformat()) is the reading of the clock      *)
(*    `now`.                                                               *)
(*  - A collection is the set of its documents; a document is a record     *)
(*    with the fields the code writes.                                     *)
(*  - `call` is the last request served: its handler, its HTTP status and  *)
(*    the response body.                                                   *)
(*  - `pending` holds the requests being served concurrently, each at an   *)
(*    await of its handler; the handlers above the concurrency sections    *)
(*    run from request to response without another request in between.     *)
(***************************************************************************)
EXTENDS Integers, Sequences, FiniteSets, TLC

VARIABLES started, today, now, checkins, metrics, photos, mortgage_events,
          gifts, trip, trip_history, settings, uploads, call, pending

store == <<checkins, metrics, photos, mortgage_events, gifts, trip,
           trip_history, settings, uploads>>

vars == <<started, today, now, checkins, metrics, photos, mortgage_events,
          gifts, trip, trip_history, settings, uploads, call, pending>>

(***************************************************************************)
(* Bounds of the model.                                                    *)
(***************************************************************************)
\* most documents a handler may add to one append-only collection
MaxDocs == 2
\* last reading of the clock
MaxClock == 1
\* most entries of the trip history
MaxHistory == 1
\* most documents per collection in the reset scenario
MaxResetDocs == 1
\* most consecutive days with a check-in in the streak scenario
MaxStreakDays == 122
\* anchor days offered to the weekly review, counted from the first
MaxAnchorDays == 13
\* mortgage events, and gifts, logged in the weekly-review scenario
MaxReviewEvents == 1
\* requests served concurrently
MaxRequests == 2

(***************************************************************************)
(* Calendar arithmetic (datetime.date).                                    *)
(***************************************************************************)
IsLeap(y) == (y % 4 = 0) /\ ((y % 100 # 0) \/ (y % 400 = 0))

DaysInMonth(y, m) ==
    IF m = 2 THEN (IF IsLeap(y) THEN 29 ELSE 28)
    ELSE IF m \in {4, 6, 9, 11} THEN 30 ELSE 31

DaysBeforeYear(y) ==
    (y - 1) * 365 + ((y - 1) \div 4) - ((y - 1) \div 100) + ((y - 1) \div 400)

RECURSIVE DaysBeforeMonth(_, _)
DaysBeforeMonth(y, m) ==
    IF m <= 1 THEN 0 ELSE DaysBeforeMonth(y, m - 1) + DaysInMonth(y, m - 1)

\* date(y, m, d).toordinal()
Date(y, m, d) == DaysBeforeYear(y) + DaysBeforeMonth(y, m) + d

\* the year of an ordinal, by the 400-, 100-, 4- and 1-year cycles
DateYear(n) ==
    LET n0 == n - 1
        n400 == n0 \div 146097
        r400 == n0 % 146097
        n100 == r400 \div 36524
        r100 == r400 % 36524
        n4 == r100 \div 1461
        r4 == r100 % 1461
        n1 == r4 \div 365
        year == n400 * 400 + n100 * 100 + n4 * 4 + n1 + 1
    IN  IF n1 = 4 \/ n100 = 4 THEN year - 1 ELSE year

RECURSIVE MonthOf(_, _, _)
MonthOf(y, rest, m) ==
    IF rest > DaysInMonth(y, m) THEN MonthOf(y, rest - DaysInMonth(y, m), m + 1)
    ELSE m

DateMonth(n) ==
    LET y == DateYear(n) IN MonthOf(y, n - DaysBeforeYear(y), 1)

DateDay(n) ==
    LET y == DateYear(n)
        m == MonthOf(y, n - DaysBeforeYear(y), 1)
    IN  n - DaysBeforeYear(y) - DaysBeforeMonth(y, m)

\* date.weekday(): Monday = 0 .. Sunday = 6
Weekday(n) == (n + 6) % 7

Text(y, m, d) == [y |-> y, m |-> m, d |-> d]
EmptyText == Text(0, 0, 0)

\* what date.fromisoformat accepts
IsIsoDate(s) ==
    /\ s.y >= 1 /\ s.y <= 9999
    /\ s.m >= 1 /\ s.m <= 12
    /\ s.d >= 1 /\ s.d <= DaysInMonth(s.y, s.m)

\* parse_date of a text it accepts; the handlers test IsIsoDate first and
\* answer 400 where parse_date raises
parse_date(s) == Date(s.y, s.m, s.d)

iso_date(n) ==
    LET y == DateYear(n)
        m == MonthOf(y, n - DaysBeforeYear(y), 1)
    IN  Text(y, m, n - DaysBeforeYear(y) - DaysBeforeMonth(y, m))

\* string order of two day texts ($gte / $lte / sort on the "day" field)
TextLE(a, b) ==
    \/ a.y < b.y
    \/ a.y = b.y /\ a.m < b.m
    \/ a.y = b.y /\ a.m = b.m /\ a.d <= b.d

\* find({"day": {"$gte": lo, "$lte": hi}})
InRange(coll, lo, hi) == {doc \in coll : TextLE(lo, doc.day) /\ TextLE(doc.day, hi)}

(***************************************************************************)
(* Helpers.                                                                *)
(***************************************************************************)
now_utc == now

\* uuid4: an identifier no document of the collection (and no stored file)
\* carries; identifiers are interchangeable, so the least unused one stands
\* for all
new_id(used) == CHOOSE i \in 1..(Cardinality(used) + 1) : i \notin used

Ids(coll) == {doc._id : doc \in coll}

None == "<None>"
\* `x or ""` of an Optional[str]
OrEmpty(x) == IF x = None THEN "" ELSE x

\* a clamp_float that never raises and pulls the value into the range
clamp_float_silently(v, min_v, max_v) ==
    [raises |-> FALSE,
     value |-> IF v < min_v THEN min_v ELSE IF v > max_v THEN max_v ELSE v]

\* clamp_float: raises (HTTP 400) out of the range, else returns v
clamp_float(v, min_v, max_v) ==
    [raises |-> (v < min_v \/ v > max_v), value |-> v]

Reply(op, status) == [op |-> op, status |-> status]

\* an error answered as a server error
RejectAsServerError(op, detail) == [op |-> op, status |-> 500, detail |-> detail]

\* raise HTTPException(status_code=400, detail=...)
Reject(op, detail) == [op |-> op, status |-> 400, detail |-> detail]

InvalidDate == "Invalid date format"

(***************************************************************************)
(* Inputs.                                                                 *)
(***************************************************************************)
\* the date the process runs on: a Wednesday
Todays == {Date(2026, 1, 14)}

\* a text date.fromisoformat rejects ("2026-13-01")
BadText == Text(2026, 13, 1)

\* day texts of requests: today, the days before it, and a malformed one
DayTexts(back) == {iso_date(today - k) : k \in 0..back} \cup {BadText}

(***************************************************************************)
(* Construction and startup.                                               *)
(***************************************************************************)
DefaultTrip(ts) ==
    [_id |-> "default", start_date |-> EmptyText, end_date |-> EmptyText,
     dates |-> "", adults_only |-> TRUE, lodging_booked |-> FALSE,
     childcare_confirmed |-> FALSE, notes |-> "", updated_at |-> ts]

\* the module is imported: no client yet, and a store nothing was written to
InitOn(days) ==
    /\ started = FALSE
    /\ today \in days
    /\ now = 0
    /\ checkins = {}
    /\ metrics = {}
    /\ photos = {}
    /\ mortgage_events = {}
    /\ gifts = {}
    /\ trip = {}
    /\ trip_history = {}
    /\ settings = {}
    /\ uploads = {}
    /\ call = Reply("none", 0)
    /\ pending = {}

Init == InitOn(Todays)

\* update_one({"_id": "default"}, {"$setOnInsert": doc}, upsert=True)
SetOnInsert(coll, doc) == IF coll = {} THEN {doc} ELSE coll

on_startup ==
    /\ ~started
    /\ started' = TRUE
    /\ settings' = SetOnInsert(settings, [_id |-> "default", updated_at |-> now_utc])
    /\ trip' = SetOnInsert(trip, DefaultTrip(now_utc))
    /\ UNCHANGED <<today, now, pending, checkins, metrics, photos, mortgage_events,
                   gifts, trip_history, uploads, call>>

\* the clock advances between requests
Tick ==
    /\ now < MaxClock
    /\ now' = now + 1
    /\ UNCHANGED <<started, today, pending, store, call>>

(***************************************************************************)
(* Check-ins.                                                              *)
(***************************************************************************)
\* a $set that also rewrites created_at
CheckinSetTouchingCreated(existing, payload, ts) ==
    [existing EXCEPT !.wakeup_5am = payload.wakeup_5am,
                     !.workout = payload.workout,
                     !.video_captured = payload.video_captured,
                     !.notes = OrEmpty(payload.notes),
                     !.created_at = ts,
                     !.updated_at = ts]

\* the document update_one's $set leaves
CheckinSet(existing, payload, ts) ==
    [existing EXCEPT !.wakeup_5am = payload.wakeup_5am,
                     !.workout = payload.workout,
                     !.video_captured = payload.video_captured,
                     !.notes = OrEmpty(payload.notes),
                     !.updated_at = ts]

CheckinDocIn(id, d, payload, ts) ==
    [_id |-> id, day |-> iso_date(d), wakeup_5am |-> payload.wakeup_5am,
     workout |-> payload.workout, video_captured |-> payload.video_captured,
     notes |-> OrEmpty(payload.notes), created_at |-> ts, updated_at |-> ts]

\* the CheckIn response model of a document
CheckIn(doc) ==
    [id |-> doc._id, day |-> doc.day, wakeup_5am |-> doc.wakeup_5am,
     workout |-> doc.workout, video_captured |-> doc.video_captured,
     notes |-> doc.notes, created_at |-> doc.created_at,
     updated_at |-> doc.updated_at]

upsert_checkin(payload) ==
    /\ started
    /\ UNCHANGED <<started, today, now, pending, metrics, photos, mortgage_events,
                   gifts, trip, trip_history, settings, uploads>>
    /\ IF ~IsIsoDate(payload.day)
       THEN /\ call' = Reject("upsert_checkin", InvalidDate)
            /\ UNCHANGED checkins
       ELSE LET d == parse_date(payload.day)
                ts == now_utc
                found == {doc \in checkins : doc.day = iso_date(d)}
            IN  IF found # {}
                THEN \E existing \in found :
                       LET doc == CheckinSet(existing, payload, ts)
                       IN  /\ checkins' = (checkins \ {existing}) \cup {doc}
                           /\ call' = [op |-> "upsert_checkin", status |-> 200,
                                       body |-> CheckIn(doc)]
                ELSE LET doc_in == CheckinDocIn(new_id(Ids(checkins)), d, payload, ts)
                     IN  /\ checkins' = checkins \cup {doc_in}
                         /\ call' = [op |-> "upsert_checkin", status |-> 200,
                                     body |-> CheckIn(doc_in)]

(***************************************************************************)
(* Fitness metrics and photos.                                             *)
(***************************************************************************)
WeightMin == 80
WeightMax == 400
BodyFatMin == 3
BodyFatMax == 70

MetricDoc(id, d, kind, v, ts) ==
    [_id |-> id, day |-> iso_date(d), kind |-> kind, value |-> v,
     created_at |-> ts]

\* the MetricEntry response model
MetricEntry(doc) ==
    [id |-> doc._id, day |-> doc.day, kind |-> doc.kind, value |-> doc.value,
     created_at |-> doc.created_at]

\* the body shared by add_weight and add_body_fat
AddMetric(op, day, value, lo, hi, label, kind) ==
    /\ started
    /\ UNCHANGED <<started, today, now, pending, checkins, photos, mortgage_events,
                   gifts, trip, trip_history, settings, uploads>>
    /\ IF ~IsIsoDate(day)
       THEN /\ call' = Reject(op, InvalidDate)
            /\ UNCHANGED metrics
       ELSE LET d == parse_date(day)
                c == clamp_float(value, lo, hi)
            IN  IF c.raises
                THEN /\ call' = Reject(op, label)
                     /\ UNCHANGED metrics
                ELSE LET doc == MetricDoc(new_id(Ids(metrics)), d, kind, c.value, now_utc)
                     IN  /\ Cardinality(metrics) < MaxDocs
                         /\ metrics' = metrics \cup {doc}
                         /\ call' = [op |-> op, status |-> 200, body |-> MetricEntry(doc)]

add_weight(payload) ==
    AddMetric("add_weight", payload.day, payload.weight_lbs, WeightMin, WeightMax,
              "weight_lbs out of range", "weight")

add_body_fat(payload) ==
    AddMetric("add_body_fat", payload.day, payload.body_fat_pct, BodyFatMin,
              BodyFatMax, "body_fat_pct out of range", "body_fat")

\* an alias that still stores the old kind name
add_waist_as_waist(payload) ==
    AddMetric("add_waist", payload.day, payload.waist_in, BodyFatMin, BodyFatMax,
              "body_fat_pct out of range", "waist")

\* the deprecated alias: BodyFatEntryCreate(day, body_fat_pct = waist_in)
add_waist(payload) ==
    AddMetric("add_waist", payload.day, payload.waist_in, BodyFatMin, BodyFatMax,
              "body_fat_pct out of range", "body_fat")

MaxUploadBytes == 10485760

\* os.path.splitext(filename)[1].lower(), for the file names of the model
LowerExt(filename) ==
    CASE filename = "a.jpg" -> ".jpg"
      [] filename = "b.PNG" -> ".png"
      [] filename = "c.gif" -> ".gif"
      [] OTHER -> ""

\* f"{iso_date(d)}-{_id}{ext}"
SafeName(d, id, ext) == [day |-> iso_date(d), id |-> id, ext |-> ext]

upload_photo(day, file) ==
    /\ started
    /\ UNCHANGED <<started, today, now, pending, checkins, metrics, mortgage_events,
                   gifts, trip, trip_history, settings>>
    /\ IF ~IsIsoDate(day)
       THEN call' = Reject("upload_photo", InvalidDate) /\ UNCHANGED <<photos, uploads>>
       ELSE IF file.filename = ""
       THEN call' = Reject("upload_photo", "Missing filename") /\ UNCHANGED <<photos, uploads>>
       ELSE IF LowerExt(file.filename) \notin {".jpg", ".jpeg", ".png", ".webp"}
       THEN call' = Reject("upload_photo", "Supported types") /\ UNCHANGED <<photos, uploads>>
       ELSE IF file.size > MaxUploadBytes
       THEN call' = Reject("upload_photo", "File too large") /\ UNCHANGED <<photos, uploads>>
       ELSE LET d == parse_date(day)
                id == new_id(Ids(photos) \cup {f.id : f \in uploads})
                safe_name == SafeName(d, id, LowerExt(file.filename))
                doc == [_id |-> id, day |-> iso_date(d), filename |-> safe_name,
                        url |-> safe_name, created_at |-> now_utc]
            IN  /\ Cardinality(uploads) < MaxDocs
                /\ uploads' = uploads \cup {safe_name}
                /\ photos' = photos \cup {doc}
                /\ call' = [op |-> "upload_photo", status |-> 200, body |-> doc]

(***************************************************************************)
(* Mortgage events.                                                        *)
(***************************************************************************)
PaymentMin == 1
PaymentMax == 1000000
BalanceMax == 10000000

AddMortgageEvent(op, payload, value, hi, label, kind) ==
    /\ started
    /\ UNCHANGED <<started, today, now, pending, checkins, metrics, photos, gifts, trip,
                   trip_history, settings, uploads>>
    /\ IF ~IsIsoDate(payload.day)
       THEN /\ call' = Reject(op, InvalidDate)
            /\ UNCHANGED mortgage_events
       ELSE LET d == parse_date(payload.day)
                c == clamp_float(value, PaymentMin, hi)
            IN  IF c.raises
                THEN /\ call' = Reject(op, label)
                     /\ UNCHANGED mortgage_events
                ELSE LET doc == [_id |-> new_id(Ids(mortgage_events)),
                                 day |-> iso_date(d), kind |-> kind,
                                 amount |-> c.value, note |-> OrEmpty(payload.note),
                                 created_at |-> now_utc]
                     IN  /\ Cardinality(mortgage_events) < MaxDocs
                         /\ mortgage_events' = mortgage_events \cup {doc}
                         /\ call' = [op |-> op, status |-> 200, body |-> doc]

add_principal_payment(payload) ==
    AddMortgageEvent("add_principal_payment", payload, payload.amount, PaymentMax,
                     "amount out of range", "principal_payment")

add_balance_check(payload) ==
    AddMortgageEvent("add_balance_check", payload, payload.principal_balance,
                     BalanceMax, "principal_balance out of range", "balance_check")

(***************************************************************************)
(* Gifts.                                                                  *)
(***************************************************************************)
\* str.strip(), for the descriptions of the model
Strip(text) ==
    CASE text = "  " -> ""
      [] text = " flowers " -> "flowers"
      [] OTHER -> text

add_gift(payload) ==
    /\ started
    /\ UNCHANGED <<started, today, now, pending, checkins, metrics, photos,
                   mortgage_events, trip, trip_history, settings, uploads>>
    /\ IF ~IsIsoDate(payload.day)
       THEN call' = Reject("add_gift", InvalidDate) /\ UNCHANGED gifts
       ELSE IF Strip(payload.description) = ""
       THEN call' = Reject("add_gift", "description required") /\ UNCHANGED gifts
       ELSE IF payload.amount < 0
       THEN call' = Reject("add_gift", "amount must be >= 0") /\ UNCHANGED gifts
       ELSE LET doc == [_id |-> new_id(Ids(gifts)),
                        day |-> iso_date(parse_date(payload.day)),
                        description |-> Strip(payload.description),
                        amount |-> payload.amount, created_at |-> now_utc]
            IN  /\ Cardinality(gifts) < MaxDocs
                /\ gifts' = gifts \cup {doc}
                /\ call' = [op |-> "add_gift", status |-> 200, body |-> doc]

(***************************************************************************)
(* Settings.                                                               *)
(***************************************************************************)
\* doc.get(field, default)
Get(doc, field, default) == IF field \in DOMAIN doc THEN doc[field] ELSE default

\* update_one({"_id": "default"}, {"$set": fields}, upsert=True)
SetFields(coll, fields) ==
    LET base == IF coll = {} THEN [_id |-> "default"] ELSE CHOOSE doc \in coll : TRUE
    IN  {[f \in DOMAIN base \cup DOMAIN fields |->
            IF f \in DOMAIN fields THEN fields[f] ELSE base[f]]}

\* get_settings_doc: the settings collection after the call
SettingsEnsured(coll, ts) ==
    IF coll = {} THEN {[_id |-> "default", updated_at |-> ts]} ELSE coll

\* a response model that has the credential among its fields
SettingsResponseWithKey(doc) ==
    [id |-> doc._id,
     sendgrid_api_key |-> Get(doc, "sendgrid_api_key", ""),
     sendgrid_sender_email |-> Get(doc, "sendgrid_sender_email", ""),
     reminder_recipient_email |-> Get(doc, "reminder_recipient_email", ""),
     weekly_review_day |-> Get(doc, "weekly_review_day", "Sun"),
     weekly_review_hour_local |-> Get(doc, "weekly_review_hour_local", 9),
     monthly_gift_day |-> Get(doc, "monthly_gift_day", 1),
     email_enabled |-> Get(doc, "email_enabled", FALSE),
     updated_at |-> Get(doc, "updated_at", "")]

\* the SettingsResponse model of a settings document
SettingsResponse(doc) ==
    [id |-> doc._id,
     sendgrid_sender_email |-> Get(doc, "sendgrid_sender_email", ""),
     reminder_recipient_email |-> Get(doc, "reminder_recipient_email", ""),
     weekly_review_day |-> Get(doc, "weekly_review_day", "Sun"),
     weekly_review_hour_local |-> Get(doc, "weekly_review_hour_local", 9),
     monthly_gift_day |-> Get(doc, "monthly_gift_day", 1),
     email_enabled |-> Get(doc, "email_enabled", FALSE),
     updated_at |-> Get(doc, "updated_at", "")]

get_settings ==
    /\ started
    /\ settings' = SettingsEnsured(settings, now_utc)
    /\ call' = [op |-> "get_settings", status |-> 200,
                body |-> SettingsResponse(CHOOSE doc \in settings' : TRUE)]
    /\ UNCHANGED <<started, today, now, pending, checkins, metrics, photos,
                   mortgage_events, gifts, trip, trip_history, uploads>>

update_settings(payload) ==
    /\ started
    /\ settings' =
         SetFields(settings,
                   [sendgrid_api_key |-> OrEmpty(payload.sendgrid_api_key),
                    sendgrid_sender_email |-> OrEmpty(payload.sendgrid_sender_email),
                    reminder_recipient_email |-> OrEmpty(payload.reminder_recipient_email),
                    weekly_review_day |-> payload.weekly_review_day,
                    weekly_review_hour_local |-> payload.weekly_review_hour_local,
                    monthly_gift_day |-> payload.monthly_gift_day,
                    email_enabled |-> payload.email_enabled,
                    updated_at |-> now_utc])
    /\ call' = [op |-> "update_settings", status |-> 200,
                body |-> SettingsResponse(CHOOSE doc \in settings' : TRUE)]
    /\ UNCHANGED <<started, today, now, pending, checkins, metrics, photos,
                   mortgage_events, gifts, trip, trip_history, uploads>>

(***************************************************************************)
(* Range reads.                                                            *)
(***************************************************************************)
\* a cursor with no sort: the documents in any order
Unsorted(docs) ==
    {seq \in [1..Cardinality(docs) -> docs] :
       \A i, j \in 1..Cardinality(docs) : i # j => seq[i] # seq[j]}

\* cursor.sort("day", 1): the orders the store may return the documents in
\* (documents of one day come in any order)
SortedByDay(docs) ==
    {seq \in [1..Cardinality(docs) -> docs] :
       /\ \A i, j \in 1..Cardinality(docs) : i # j => seq[i] # seq[j]
       /\ \A i, j \in 1..Cardinality(docs) : i < j => TextLE(seq[i].day, seq[j].day)}

\* find(filter).limit(1) with no sort: the document inserted first
FirstInserted(docs) == {doc \in docs : \A other \in docs : doc._id <= other._id}

\* find(filter).sort("day", -1).limit(1): the documents that may come first
LatestByDay(docs) == {doc \in docs : \A other \in docs : TextLE(other.day, doc.day)}

BadRange == "end must be >= start"

list_checkins(start, end) ==
    /\ started
    /\ UNCHANGED <<started, today, now, pending, store>>
    /\ IF ~IsIsoDate(start) \/ ~IsIsoDate(end)
       THEN call' = Reject("list_checkins", InvalidDate)
       ELSE LET ds == parse_date(start)
                de == parse_date(end)
            IN  IF de < ds
                THEN call' = Reject("list_checkins", BadRange)
                ELSE \E out \in SortedByDay(InRange(checkins, iso_date(ds), iso_date(de))) :
                       call' = [op |-> "list_checkins", status |-> 200,
                                body |-> [i \in DOMAIN out |-> CheckIn(out[i])]]

\* the metric of a response with the kind as stored
MetricOutAsStored(doc) ==
    [id |-> doc._id, day |-> doc.day, kind |-> doc.kind, value |-> doc.value,
     created_at |-> doc.created_at]

\* the metric of a response: the legacy kind is renamed
MetricOut(doc) ==
    [id |-> doc._id, day |-> doc.day,
     kind |-> IF doc.kind = "waist" THEN "body_fat" ELSE doc.kind,
     value |-> doc.value, created_at |-> doc.created_at]

PhotoOut(doc) ==
    [id |-> doc._id, day |-> doc.day, filename |-> doc.filename, url |-> doc.url,
     created_at |-> doc.created_at]

\* `docs[0]["value"] if docs else None`: the value as a set of at most one
ValueOf(first) == {doc.value : doc \in first}

get_fitness_metrics(start, end) ==
    /\ started
    /\ UNCHANGED <<started, today, now, pending, store>>
    /\ IF ~IsIsoDate(start) \/ ~IsIsoDate(end)
       THEN call' = Reject("get_fitness_metrics", InvalidDate)
       ELSE LET ds == parse_date(start)
                de == parse_date(end)
                weights == {doc \in metrics : doc.kind = "weight"}
                bfs == {doc \in metrics : doc.kind \in {"body_fat", "waist"}}
            IN  IF de < ds
                THEN call' = Reject("get_fitness_metrics", BadRange)
                ELSE \E ms \in SortedByDay(InRange(metrics, iso_date(ds), iso_date(de))),
                        ps \in SortedByDay(InRange(photos, iso_date(ds), iso_date(de))),
                        latest_weight \in {first \in SUBSET LatestByDay(weights) :
                                             Cardinality(first) = (IF weights = {} THEN 0 ELSE 1)},
                        latest_bf \in {first \in SUBSET LatestByDay(bfs) :
                                         Cardinality(first) = (IF bfs = {} THEN 0 ELSE 1)} :
                       call' = [op |-> "get_fitness_metrics", status |-> 200,
                                body |-> [metrics |-> [i \in DOMAIN ms |-> MetricOut(ms[i])],
                                          photos |-> [i \in DOMAIN ps |-> PhotoOut(ps[i])],
                                          latest |-> [weight_lbs |-> ValueOf(latest_weight),
                                                      body_fat_pct |-> ValueOf(latest_bf)]]]

\* no comparison of `de` with `ds` here
list_mortgage_events(start, end) ==
    /\ started
    /\ UNCHANGED <<started, today, now, pending, store>>
    /\ IF ~IsIsoDate(start) \/ ~IsIsoDate(end)
       THEN call' = Reject("list_mortgage_events", InvalidDate)
       ELSE LET ds == parse_date(start)
                de == parse_date(end)
            IN  \E out \in SortedByDay(InRange(mortgage_events, iso_date(ds), iso_date(de))) :
                  call' = [op |-> "list_mortgage_events", status |-> 200,
                           body |-> [i \in DOMAIN out |->
                                       [id |-> out[i]._id, day |-> out[i].day,
                                        kind |-> out[i].kind,
                                        amount |-> out[i].amount,
                                        note |-> out[i].note,
                                        created_at |-> out[i].created_at]]]

(***************************************************************************)
(* The check-in scenario: upserts for today and yesterday while the clock  *)
(* advances.                                                               *)
(***************************************************************************)
CheckinPayloads ==
    [day : DayTexts(1), wakeup_5am : BOOLEAN, workout : {TRUE},
     video_captured : {FALSE}, notes : {None, "gym"}]

NextCheckin ==
    \/ on_startup
    \/ Tick
    \/ \E payload \in CheckinPayloads : upsert_checkin(payload)

SpecCheckin == Init /\ [][NextCheckin]_vars

\* the check-in documents of the day a text names
CheckinsOf(coll, text) == {doc \in coll : doc.day = iso_date(parse_date(text))}

\* C1: an upsert_checkin call for a valid ISO day leaves exactly one record
\* for that day, carrying the call's field values and the call's timestamp as
\* updated_at; when a record for the day existed (an earlier call wrote it)
\* its created_at is preserved, and updated_at changes when the clock has
\* advanced since; otherwise created_at is the call's timestamp.
C1_UpsertTwiceOneRecord ==
    [][\A payload \in CheckinPayloads :
         (upsert_checkin(payload) /\ IsIsoDate(payload.day)) =>
           LET before == CheckinsOf(checkins, payload.day)
               after == CheckinsOf(checkins', payload.day)
           IN  /\ Cardinality(after) = 1
               /\ Cardinality(checkins') =
                    Cardinality(checkins) + (IF before = {} THEN 1 ELSE 0)
               /\ \A rec \in after :
                    /\ rec.wakeup_5am = payload.wakeup_5am
                    /\ rec.workout = payload.workout
                    /\ rec.video_captured = payload.video_captured
                    /\ rec.notes = OrEmpty(payload.notes)
                    /\ rec.updated_at = now
                    /\ call'.status = 200 /\ call'.body = CheckIn(rec)
                    /\ \A old \in before :
                         /\ rec.created_at = old.created_at
                         /\ rec._id = old._id
                         /\ (now # old.updated_at => rec.updated_at # old.updated_at)
                    /\ (before = {} => rec.created_at = now)]_vars

\* a second upsert for a day has been served after the clock advanced
C1_Witness ==
    /\ call.op = "upsert_checkin" /\ call.status = 200
    /\ call.body.created_at < call.body.updated_at
    /\ \E doc \in checkins : CheckIn(doc) = call.body /\ doc.notes = "gym"

(***************************************************************************)
(* Relationship: the trip singleton and its history.                       *)
(***************************************************************************)
\* a day text field sent as null
NoneText == Text(-1, -1, -1)
\* `x or ""` of an Optional[str] holding a day text
TextOrEmpty(x) == IF x = NoneText THEN EmptyText ELSE x

\* the TripState response model of a trip document
TripState(doc) ==
    [id |-> doc._id, start_date |-> doc.start_date, end_date |-> doc.end_date,
     dates |-> doc.dates, adults_only |-> doc.adults_only,
     lodging_booked |-> doc.lodging_booked,
     childcare_confirmed |-> doc.childcare_confirmed, notes |-> doc.notes,
     updated_at |-> doc.updated_at]

\* get_trip as a function of the trip collection: the response
GetTripReply(op, coll) ==
    IF coll = {}
    THEN [op |-> op, status |-> 500, detail |-> "Trip state missing"]
    ELSE [op |-> op, status |-> 200, body |-> TripState(CHOOSE doc \in coll : TRUE)]

get_trip ==
    /\ started
    /\ call' = GetTripReply("get_trip", trip)
    /\ UNCHANGED <<started, today, now, pending, store>>

\* the validation of update_trip: "" when the dates pass, else the detail of
\* the HTTPException raised
TripDatesWithoutOrderCheck(sd, ed) ==
    IF sd # EmptyText /\ ~IsIsoDate(sd) THEN InvalidDate
    ELSE IF ed # EmptyText /\ ~IsIsoDate(ed) THEN InvalidDate
    ELSE ""

TripDatesError(sd, ed) ==
    IF sd # EmptyText /\ ~IsIsoDate(sd) THEN InvalidDate
    ELSE IF ed # EmptyText /\ ~IsIsoDate(ed) THEN InvalidDate
    ELSE IF sd # EmptyText /\ ed # EmptyText /\ parse_date(ed) < parse_date(sd)
         THEN "end_date must be >= start_date"
    ELSE ""

\* update_one({"_id": "default"}, {"$set": fields}, upsert=True)
TripSet(coll, payload, sd, ed, ts) ==
    {[_id |-> "default", start_date |-> sd, end_date |-> ed,
      dates |-> OrEmpty(payload.dates),
      adults_only |-> payload.adults_only,
      lodging_booked |-> payload.lodging_booked,
      childcare_confirmed |-> payload.childcare_confirmed,
      notes |-> OrEmpty(payload.notes), updated_at |-> ts]}

\* a find_one placed after the update_one
TripPrevReadAfterWrite(before, after) == after

\* prev = find_one({"_id": "default"}), read before the update_one
TripPrev(before, after) == before

TripHistoryDoc(id, prev, ts) ==
    [_id |-> id, trip_id |-> "default", created_at |-> ts,
     snapshot |-> TripState(prev)]

update_trip(payload) ==
    /\ started
    /\ UNCHANGED <<started, today, now, pending, checkins, metrics, photos,
                   mortgage_events, gifts, settings, uploads>>
    /\ LET ts == now_utc
           sd == TextOrEmpty(payload.start_date)
           ed == TextOrEmpty(payload.end_date)
           err == TripDatesError(sd, ed)
           written == TripSet(trip, payload, sd, ed, ts)
           prev == TripPrev(trip, written)
       IN  IF err # ""
           THEN /\ call' = Reject("update_trip", err)
                /\ UNCHANGED <<trip, trip_history>>
           ELSE /\ prev # {} => Cardinality(trip_history) < MaxHistory
                /\ trip' = written
                /\ trip_history' =
                     IF prev # {}
                     THEN trip_history \cup
                            {TripHistoryDoc(new_id(Ids(trip_history)),
                                            CHOOSE doc \in prev : TRUE, ts)}
                     ELSE trip_history
                /\ call' = GetTripReply("update_trip", written)

\* The store is an external collaborator that outlives the process and is
\* not the process's alone: the trip document can be gone when a request
\* arrives.  The handlers provide for it (get_trip answers 500, update_trip
\* tests `if prev`, summary tests `if trip_doc`).
trip_document_missing ==
    /\ started
    /\ trip # {}
    /\ trip' = {}
    /\ UNCHANGED <<started, today, now, pending, checkins, metrics, photos,
                   mortgage_events, gifts, trip_history, settings, uploads, call>>

(***************************************************************************)
(* The trip scenario.                                                      *)
(***************************************************************************)
TripEarly == iso_date(today + 45)
TripLate == iso_date(today + 48)

TripPayloads ==
    [start_date : {NoneText, TripLate, BadText},
     end_date : {TripEarly, TripLate, BadText},
     dates : {None}, adults_only : {TRUE}, lodging_booked : {TRUE},
     childcare_confirmed : {FALSE}, notes : {""}]

NextTrip ==
    \/ on_startup
    \/ Tick
    \/ get_trip
    \/ \E payload \in TripPayloads : update_trip(payload)
    \/ trip_document_missing

SpecTrip == Init /\ [][NextTrip]_vars

\* the trip history entries a step appends
Appended == trip_history' \ trip_history

\* C2 (as claimed): every update_trip call that succeeds appends exactly one
\* entry to trip_history, whose snapshot is the trip state before the
\* update, also when no trip document exists when the update starts.
C2_AlwaysOneSnapshot ==
    [][\A payload \in TripPayloads :
         (update_trip(payload) /\ call'.status = 200) =>
           /\ trip_history \subseteq trip_history'
           /\ Cardinality(Appended) = 1
           /\ \A e \in Appended : \A prev \in trip : e.snapshot = TripState(prev)]_vars

\* C2 (amended): an update_trip call that succeeds with a trip document
\* present when it starts appends exactly one entry to trip_history, and the
\* entry's snapshot is that document's state (the state before the update),
\* with the call's timestamp as created_at; a call that succeeds with no trip
\* document present appends nothing.
C2_OneSnapshotOfPrior ==
    [][\A payload \in TripPayloads :
         (update_trip(payload) /\ call'.status = 200) =>
           /\ trip_history \subseteq trip_history'
           /\ Cardinality(Appended) = (IF trip = {} THEN 0 ELSE 1)
           /\ \A e \in Appended :
                /\ e.trip_id = "default"
                /\ e.created_at = now
                /\ \A prev \in trip : e.snapshot = TripState(prev)]_vars

\* an update has archived a state that differs from the state it wrote
C2_Witness ==
    /\ call.op = "update_trip" /\ call.status = 200
    /\ \E e \in trip_history :
         /\ e.snapshot.start_date # call.body.start_date
         /\ e.snapshot.end_date # call.body.end_date
         /\ e.snapshot.end_date # EmptyText
         /\ e.created_at = call.body.updated_at

\* the requests update_trip is to reject
TripDatesBad(payload) ==
    LET sd == TextOrEmpty(payload.start_date)
        ed == TextOrEmpty(payload.end_date)
    IN  \/ sd # EmptyText /\ ~IsIsoDate(sd)
        \/ ed # EmptyText /\ ~IsIsoDate(ed)
        \/ /\ IsIsoDate(sd) /\ IsIsoDate(ed)
           /\ ~TextLE(sd, ed)

\* C3: an update_trip call whose dates both parse with end_date before
\* start_date, or one of whose provided dates does not parse, is answered
\* with a client error and changes neither the trip document nor
\* trip_history.
C3_BadDatesRejected ==
    [][\A payload \in TripPayloads :
         (update_trip(payload) /\ TripDatesBad(payload)) =>
           /\ call'.status = 400
           /\ trip' = trip
           /\ trip_history' = trip_history]_vars

\* an update with end_date before start_date was rejected after an earlier
\* update had been applied
C3_Witness ==
    /\ call.op = "update_trip" /\ call.status = 400
    /\ call.detail = "end_date must be >= start_date"
    /\ trip_history # {}
    /\ \E doc \in trip : doc.start_date = TripLate

(***************************************************************************)
(* Administrative reset.                                                   *)
(***************************************************************************)
\* a list that omits the gifts collection
collections_without_gifts ==
    {"checkins", "metrics", "photos", "mortgage_events", "trip_history"}

\* a list that leaves the photo records out
collections_without_photos ==
    {"checkins", "metrics", "mortgage_events", "gifts", "trip_history"}

collections_to_clear ==
    {"checkins", "metrics", "photos", "mortgage_events", "gifts", "trip_history"}

\* a delete_many that removes nothing
AfterClearNothing(name, coll) == coll

\* delete_many({}) on the listed collections: what is left of one
AfterClear(name, coll) == IF name \in collections_to_clear THEN {} ELSE coll

\* a delete_many that reports what it left behind
DeletedCountAfter(name, coll) == Cardinality(AfterClear(name, coll))

\* res.deleted_count
DeletedCount(name, coll) ==
    IF name \in collections_to_clear THEN Cardinality(coll) ELSE 0

admin_reset(confirm) ==
    /\ started
    /\ UNCHANGED <<started, today, now, pending, settings, uploads>>
    /\ IF confirm # "RESET"
       THEN /\ call' = Reject("admin_reset", "confirm must be 'RESET'")
            /\ UNCHANGED <<checkins, metrics, photos, mortgage_events, gifts,
                           trip, trip_history>>
       ELSE /\ checkins' = AfterClear("checkins", checkins)
            /\ metrics' = AfterClear("metrics", metrics)
            /\ photos' = AfterClear("photos", photos)
            /\ mortgage_events' = AfterClear("mortgage_events", mortgage_events)
            /\ gifts' = AfterClear("gifts", gifts)
            /\ trip_history' = AfterClear("trip_history", trip_history)
            /\ trip' = SetFields(trip, [start_date |-> EmptyText,
                                        end_date |-> EmptyText, dates |-> "",
                                        adults_only |-> TRUE,
                                        lodging_booked |-> FALSE,
                                        childcare_confirmed |-> FALSE,
                                        notes |-> "", updated_at |-> now_utc])
            /\ call' = [op |-> "admin_reset", status |-> 200,
                        body |-> [ok |-> TRUE,
                                  deleted |->
                                    [checkins |-> DeletedCount("checkins", checkins),
                                     metrics |-> DeletedCount("metrics", metrics),
                                     photos |-> DeletedCount("photos", photos),
                                     mortgage_events |->
                                       DeletedCount("mortgage_events", mortgage_events),
                                     gifts |-> DeletedCount("gifts", gifts),
                                     trip_history |->
                                       DeletedCount("trip_history", trip_history)]]]

(***************************************************************************)
(* The reset scenario: every collection is written to, the singletons are  *)
(* changed, and a reset is asked for with several confirmation values.     *)
(***************************************************************************)
Confirms == {"RESET", "reset", "WRONG", ""}

ResetSettings ==
    [sendgrid_api_key |-> "SG.key", sendgrid_sender_email |-> "me@example.com",
     reminder_recipient_email |-> None, weekly_review_day |-> "Mon",
     weekly_review_hour_local |-> 10, monthly_gift_day |-> 15,
     email_enabled |-> TRUE]

ResetTrip ==
    [start_date |-> TripEarly, end_date |-> TripLate, dates |-> "Summer",
     adults_only |-> FALSE, lodging_booked |-> TRUE,
     childcare_confirmed |-> TRUE, notes |-> "cabin"]

NextReset ==
    \/ on_startup
    \/ /\ Cardinality(checkins) < MaxResetDocs
       /\ upsert_checkin([day |-> iso_date(today), wakeup_5am |-> TRUE,
                          workout |-> TRUE, video_captured |-> FALSE,
                          notes |-> None])
    \/ /\ Cardinality(metrics) < MaxResetDocs
       /\ add_weight([day |-> iso_date(today), weight_lbs |-> 180])
    \/ /\ Cardinality(photos) < MaxResetDocs
       /\ upload_photo(iso_date(today), [filename |-> "b.PNG", size |-> 1024])
    \/ /\ Cardinality(mortgage_events) < MaxResetDocs
       /\ add_principal_payment([day |-> iso_date(today), amount |-> 500,
                                 note |-> None])
    \/ /\ Cardinality(gifts) < MaxResetDocs
       /\ add_gift([day |-> iso_date(today), description |-> " flowers ",
                    amount |-> 25])
    \/ update_trip(ResetTrip)
    \/ update_settings(ResetSettings)
    \/ \E confirm \in Confirms : admin_reset(confirm)

SpecReset == Init /\ [][NextReset]_vars

\* C4: admin_reset with confirm exactly "RESET" empties check-ins, metrics,
\* photos, mortgage events and gifts, leaves the settings document unchanged
\* and leaves the trip document present with default field values;
\* admin_reset with any other confirm value answers with a client error and
\* changes no collection and neither singleton.
C4_ResetFrame ==
    [][\A confirm \in Confirms :
         admin_reset(confirm) =>
           IF confirm = "RESET"
           THEN /\ call'.status = 200
                /\ checkins' = {} /\ metrics' = {} /\ photos' = {}
                /\ mortgage_events' = {} /\ gifts' = {}
                /\ settings' = settings
                /\ Cardinality(trip') = 1
                /\ \A doc \in trip' :
                     [doc EXCEPT !.updated_at = 0] = DefaultTrip(0)
           ELSE /\ call'.status = 400
                /\ store' = store]_vars

\* a reset was served on a store with every target collection filled, the
\* trip changed and the settings written
C4_Witness ==
    /\ call.op = "admin_reset" /\ call.status = 200
    /\ call.body.deleted.checkins > 0 /\ call.body.deleted.metrics > 0
    /\ call.body.deleted.photos > 0 /\ call.body.deleted.mortgage_events > 0
    /\ call.body.deleted.gifts > 0 /\ call.body.deleted.trip_history > 0
    /\ \E doc \in settings : Get(doc, "sendgrid_api_key", "") = "SG.key"
    /\ uploads # {}

\* a request with a wrong confirmation was refused on a filled store
C4_WitnessRefused ==
    /\ call.op = "admin_reset" /\ call.status = 400
    /\ checkins # {} /\ metrics # {} /\ photos # {} /\ mortgage_events # {}
    /\ gifts # {} /\ trip_history # {}

(***************************************************************************)
(* The range-read scenario: records on two days, read over every range of  *)
(* the day texts.                                                          *)
(***************************************************************************)
RangeTexts == DayTexts(1)

NextRange ==
    \/ on_startup
    \/ \E k \in 0..1 :
         upsert_checkin([day |-> iso_date(today - k), wakeup_5am |-> TRUE,
                         workout |-> FALSE, video_captured |-> FALSE,
                         notes |-> "gym"])
    \/ \E k \in 0..1 : add_weight([day |-> iso_date(today - k), weight_lbs |-> 180])
    \/ \E k \in 0..1 :
         add_balance_check([day |-> iso_date(today - k),
                            principal_balance |-> 320000, note |-> None])
    \/ \E start, end \in RangeTexts : list_checkins(start, end)
    \/ \E start, end \in RangeTexts : get_fitness_metrics(start, end)
    \/ \E start, end \in RangeTexts : list_mortgage_events(start, end)

SpecRange == Init /\ [][NextRange]_vars

\* a range whose two texts parse, with end before start
Reversed(start, end) ==
    IsIsoDate(start) /\ IsIsoDate(end) /\ parse_date(end) < parse_date(start)

\* C5: list_checkins, get_fitness_metrics and list_mortgage_events each
\* answer a request whose start and end both parse with end before start with
\* a client error, and return no list.
C5_ReversedRangeRejected ==
    [][\A start, end \in RangeTexts :
         Reversed(start, end) =>
           /\ list_checkins(start, end) => call'.status = 400
           /\ get_fitness_metrics(start, end) => call'.status = 400
           /\ list_mortgage_events(start, end) => call'.status = 400]_vars

(***************************************************************************)
(* Dashboard summary: the streaks.                                         *)
(***************************************************************************)
StreakCap == 120

\* the field of the check-in of day today - i: "none" without a record
DayFlag(field, i) ==
    LET day == iso_date(today - i)
        found == {doc \in checkins : doc.day = day}
    IN  IF found = {} THEN "none"
        ELSE IF (CHOOSE doc \in found : TRUE)[field] THEN "true" ELSE "false"

\* a loop that breaks only at a day with no record, whatever the field holds
RECURSIVE StreakLoopAnyRecord(_, _)
StreakLoopAnyRecord(field, i) ==
    IF i >= StreakCap THEN 0
    ELSE IF DayFlag(field, i) = "none" THEN 0
    ELSE 1 + StreakLoopAnyRecord(field, i + 1)

\* for i in range(i, 120): break at the first day with no record or a false
\* field, else streak += 1
RECURSIVE StreakLoop(_, _)
StreakLoop(field, i) ==
    IF i >= StreakCap THEN 0
    ELSE IF DayFlag(field, i) # "true" THEN 0
    ELSE 1 + StreakLoop(field, i + 1)

calc_current_streak(field) == StreakLoop(field, 0)

StreakFields == {"wakeup_5am", "workout"}

\* one `await calc_current_streak(field)`
calc_current_streak_call(field) ==
    /\ started
    /\ call' = [op |-> "calc_current_streak", status |-> 200, field |-> field,
                body |-> calc_current_streak(field)]
    /\ UNCHANGED <<started, today, now, pending, store>>

(***************************************************************************)
(* The streak scenario: check-ins are entered day by day backwards from    *)
(* today, all true until one day is skipped or entered with a false field, *)
(* and a day already entered may be corrected.                             *)
(***************************************************************************)
\* the days entered so far form a run: today, yesterday, ... with no gap
\* and both fields true
IsRun ==
    \A doc \in checkins :
       /\ doc.wakeup_5am /\ doc.workout
       /\ parse_date(doc.day) > today - Cardinality(checkins)

StreakPayload(k, wakeup, workout) ==
    [day |-> iso_date(today - k), wakeup_5am |-> wakeup, workout |-> workout,
     video_captured |-> FALSE, notes |-> None]

NextStreak ==
    \/ on_startup
    \/ /\ IsRun /\ Cardinality(checkins) < MaxStreakDays
       /\ upsert_checkin(StreakPayload(Cardinality(checkins), TRUE, TRUE))
    \/ /\ IsRun /\ Cardinality(checkins) < MaxStreakDays
       /\ \E wakeup, workout \in BOOLEAN :
            /\ ~(wakeup /\ workout)
            /\ upsert_checkin(StreakPayload(Cardinality(checkins), wakeup, workout))
    \/ /\ IsRun /\ Cardinality(checkins) < MaxStreakDays
       /\ upsert_checkin(StreakPayload(Cardinality(checkins) + 1, TRUE, TRUE))
    \/ /\ IsRun /\ checkins # {}
       /\ \E k \in {0, Cardinality(checkins) \div 2} :
            upsert_checkin(StreakPayload(k, FALSE, TRUE))
    \/ \E field \in StreakFields : calc_current_streak_call(field)

SpecStreak == Init /\ [][NextStreak]_vars

\* the dates for which a check-in with the field true is stored
TrueDates(field) == {parse_date(doc.day) : doc \in {doc \in checkins : doc[field]}}

\* the field is true on each of the n days ending today, and day today - n
\* has no check-in or has the field false
TrueOnLast(dates, n) ==
    (\A i \in 0..(n - 1) : (today - i) \in dates) /\ (today - n) \notin dates

\* C6 (as claimed): for each field and every N >= 0, with the field true on
\* each of the N days ending today and no check-in, or a false field, on day
\* today - N, calc_current_streak returns N.  (`call` holds the value returned
\* for the store as it is: every write replaces `call`.)
C6_StreakIsRunLength ==
    call.op = "calc_current_streak" =>
      LET dates == TrueDates(call.field)
      IN  \A n \in 0..MaxStreakDays : TrueOnLast(dates, n) => call.body = n

\* C6 (amended): the same for every N from 0 to 120, today's missing or false
\* check-in giving 0; with the field true on more than 120 consecutive days
\* ending today calc_current_streak returns 120.
C6_StreakIsRunLengthUpTo120 ==
    call.op = "calc_current_streak" =>
      LET dates == TrueDates(call.field)
      IN  \A n \in 0..MaxStreakDays :
             TrueOnLast(dates, n) =>
               call.body = (IF n <= StreakCap THEN n ELSE StreakCap)

\* a streak of 120 was returned with a workout false on day today - 120
C6_Witness ==
    /\ call.op = "calc_current_streak" /\ call.field = "workout"
    /\ call.body = StreakCap
    /\ \E doc \in checkins :
         doc.day = iso_date(today - StreakCap) /\ doc.wakeup_5am /\ ~doc.workout

\* a streak of 0 was returned for today's missing check-in
C6_WitnessZero ==
    /\ call.op = "calc_current_streak" /\ call.body = 0
    /\ checkins # {}
    /\ \A doc \in checkins : doc.day # iso_date(today)

(***************************************************************************)
(* Dashboard summary.                                                      *)
(***************************************************************************)
\* the names summary() has assigned when control reaches the waist reminder:
\* its locals so far (the module's globals and the builtins hold no
\* `latest_waist` either)
SummaryAssigned ==
    {"today", "ws", "we", "week_checkins", "week_wakeup_count",
     "week_workout_count", "week_video_count", "current_wakeup_streak",
     "current_workout_streak", "latest_weight", "latest_bf", "mortgage",
     "trip_doc", "trip_lodging_booked", "trip_childcare_confirmed",
     "month_start", "gifts_this_month", "reminders", "last_weight_doc",
     "last_weight_day"}

\* the fields of the SummaryResponse model
SummaryFields ==
    {"today", "current_wakeup_streak", "current_workout_streak",
     "week_wakeup_count", "week_workout_count", "week_video_count",
     "latest_weight_lbs", "latest_body_fat_pct", "mortgage_target_principal",
     "mortgage_start_principal", "latest_principal_balance",
     "principal_paid_extra_ytd", "principal_paid_extra_month",
     "trip_lodging_booked", "trip_childcare_confirmed", "gifts_this_month",
     "reminders"}

\* GET /api/summary.  Everything up to the waist reminder only reads the
\* store; `latest_waist[0] if latest_waist else None` then evaluates a name
\* that was never assigned, the NameError is not handled, and the server
\* answers 500.  The statements after it, the return included, never run.
summary ==
    /\ started
    /\ UNCHANGED <<started, today, now, pending, store>>
    /\ call' = IF "latest_waist" \notin SummaryAssigned
               THEN [op |-> "summary", status |-> 500,
                     detail |-> "Internal Server Error"]
               ELSE [op |-> "summary", status |-> 200,
                     body |-> [field \in SummaryFields |-> None]]

(***************************************************************************)
(* The summary scenario: check-ins, weights, body-fat values and balance   *)
(* checks are logged, and the dashboard is opened at any point.            *)
(***************************************************************************)
NextSummary ==
    \/ on_startup
    \/ Tick
    \/ \E wakeup \in BOOLEAN :
         upsert_checkin([day |-> iso_date(today), wakeup_5am |-> wakeup,
                         workout |-> TRUE, video_captured |-> FALSE,
                         notes |-> None])
    \/ \E k \in {0, 7} : add_weight([day |-> iso_date(today - k), weight_lbs |-> 180])
    \/ \E k \in {0, 14} :
         add_body_fat([day |-> iso_date(today - k), body_fat_pct |-> 20])
    \/ add_balance_check([day |-> iso_date(today), principal_balance |-> 300000,
                          note |-> None])
    \/ summary

SpecSummary == Init /\ [][NextSummary]_vars

\* C7 (as claimed): in every reachable store state a call of the dashboard
\* summary completes with status 200 and returns a response carrying today,
\* both streaks, the week counts, latest_weight_lbs, latest_body_fat_pct, the
\* mortgage roll-up and a reminders list; it never ends in an internal fault.
C7_SummarySucceeds ==
    call.op = "summary" =>
      /\ call.status = 200
      /\ {"today", "current_wakeup_streak", "current_workout_streak",
          "week_wakeup_count", "week_workout_count", "week_video_count",
          "latest_weight_lbs", "latest_body_fat_pct",
          "latest_principal_balance", "principal_paid_extra_ytd",
          "principal_paid_extra_month", "reminders"} \subseteq DOMAIN call.body

(***************************************************************************)
(* Weekly review.                                                          *)
(***************************************************************************)
\* a week that starts on Monday: anchor.weekday() days back
days_since_mon(anchor) == Weekday(anchor)

\* (anchor.weekday() + 1) % 7
days_since_sun(anchor) == (Weekday(anchor) + 1) % 7

week_bounds(anchor) ==
    LET start == anchor - days_since_sun(anchor)
    IN  [start |-> start, end |-> start + 6]

\* sum(1 for c in checkins if c.get(field))
CountTrue(docs, field) == Cardinality({c \in docs : c[field]})

\* thresholds that ask for four workouts only
ReviewFlagsFourWorkouts(wakeups, workouts, videos, mortgage_actions, relationship_actions) ==
    [wakeups_ge_4 |-> wakeups >= 4,
     workouts_completed_5 |-> workouts >= 4,
     captured_at_least_1_video |-> videos >= 1,
     mortgage_action_taken |-> mortgage_actions >= 1,
     relationship_action_taken |-> relationship_actions >= 1]

\* the five booleans of the WeeklyReviewResponse
ReviewFlags(wakeups, workouts, videos, mortgage_actions, relationship_actions) ==
    [wakeups_ge_4 |-> wakeups >= 4,
     workouts_completed_5 |-> workouts >= 5,
     captured_at_least_1_video |-> videos >= 1,
     mortgage_action_taken |-> mortgage_actions >= 1,
     relationship_action_taken |-> relationship_actions >= 1]

\* GET /api/review/weekly?anchor_day=...: an absent (NoneText) or empty
\* anchor_day is falsy and stands for today.  The unique index on day keeps a
\* week's check-ins far below to_list's 200.
weekly_review(anchor_day) ==
    /\ started
    /\ UNCHANGED <<started, today, now, pending, store>>
    /\ IF anchor_day \notin {NoneText, EmptyText} /\ ~IsIsoDate(anchor_day)
       THEN call' = [op |-> "weekly_review", status |-> 400,
                     anchor_day |-> anchor_day, detail |-> InvalidDate]
       ELSE LET anchor == IF anchor_day \in {NoneText, EmptyText}
                          THEN today ELSE parse_date(anchor_day)
                w == week_bounds(anchor)
                ws == iso_date(w.start)
                we == iso_date(w.end)
                week == InRange(checkins, ws, we)
                flags == ReviewFlags(CountTrue(week, "wakeup_5am"),
                                     CountTrue(week, "workout"),
                                     CountTrue(week, "video_captured"),
                                     Cardinality(InRange(mortgage_events, ws, we)),
                                     Cardinality(InRange(gifts, ws, we)))
            IN  call' = [op |-> "weekly_review", status |-> 200,
                         anchor_day |-> anchor_day,
                         body |-> [week_start |-> ws, week_end |-> we,
                                   wakeups_ge_4 |-> flags.wakeups_ge_4,
                                   workouts_completed_5 |-> flags.workouts_completed_5,
                                   captured_at_least_1_video |->
                                     flags.captured_at_least_1_video,
                                   mortgage_action_taken |-> flags.mortgage_action_taken,
                                   relationship_action_taken |->
                                     flags.relationship_action_taken]]

(***************************************************************************)
(* The week-bounds scenario: the review is asked on each day of a week,    *)
(* with no anchor, an empty or unreadable one, or an anchor from a run of  *)
(* days across a leap day and a month's end.                               *)
(***************************************************************************)
WeekTodays == {Date(2026, 1, 11) + k : k \in 0..6}

AnchorTexts ==
    {NoneText, EmptyText, BadText}
      \cup {iso_date(Date(2024, 2, 24) + k) : k \in 0..MaxAnchorDays}

NextWeek ==
    \/ on_startup
    \/ \E anchor_day \in AnchorTexts : weekly_review(anchor_day)

SpecWeek == InitOn(WeekTodays) /\ [][NextWeek]_vars

\* the date a review request is anchored on
AnchorOf(anchor_day) ==
    IF anchor_day \in {NoneText, EmptyText} THEN today ELSE parse_date(anchor_day)

\* C8: for every anchor date a, week_bounds(a) = (ws, we) with ws a Sunday,
\* ws <= a <= we, a - ws < 7 and we = ws + 6; for a Wednesday anchor ws is
\* the Sunday three days earlier.  weekly_review reports them as week_start
\* and week_end, with today as the anchor when none is supplied.
C8_WeekBounds ==
    (call.op = "weekly_review" /\ call.status = 200) =>
      LET a == AnchorOf(call.anchor_day)
          ws == parse_date(call.body.week_start)
          we == parse_date(call.body.week_end)
      IN  /\ IsIsoDate(call.body.week_start) /\ IsIsoDate(call.body.week_end)
          /\ week_bounds(a) = [start |-> ws, end |-> we]
          /\ Weekday(ws) = 6
          /\ ws <= a /\ a <= we /\ a - ws < 7
          /\ we = ws + 6
          /\ (Weekday(a) = 2 => ws = a - 3)

\* the review anchored on Wednesday 2024-02-28 reported the week from Sunday
\* 2024-02-25 to Saturday 2024-03-02
C8_Witness ==
    /\ call.op = "weekly_review" /\ call.status = 200
    /\ call.anchor_day = Text(2024, 2, 28)
    /\ call.body.week_start = Text(2024, 2, 25)
    /\ call.body.week_end = Text(2024, 3, 2)

\* the review without an anchor, on Saturday 2026-01-17, reported the week
\* that began on Sunday 2026-01-11
C8_WitnessToday ==
    /\ call.op = "weekly_review" /\ call.status = 200
    /\ call.anchor_day = NoneText
    /\ today = Date(2026, 1, 17)
    /\ call.body.week_start = Text(2026, 1, 11)

(***************************************************************************)
(* The review scenario, on Wednesday 2026-01-14: check-ins are entered in  *)
(* the order of their days from the Saturday before the week to the Friday *)
(* in it, some days left out; payments, balance checks and gifts are       *)
(* logged in the week and outside it; the review is asked for this week    *)
(* and for the week before.                                                *)
(***************************************************************************)
ReviewDays == (-4)..2

\* no wake-up on the Sunday, no workout on the Friday, a video on the
\* Saturday before the week and on the Wednesday
ReviewPayload(k) ==
    [day |-> iso_date(today + k), wakeup_5am |-> (k # -3), workout |-> (k # 2),
     video_captured |-> (k \in {-4, 0}), notes |-> None]

NextReview ==
    \/ on_startup
    \/ \E k \in ReviewDays :
         /\ \A doc \in checkins : parse_date(doc.day) < today + k
         /\ upsert_checkin(ReviewPayload(k))
    \/ /\ Cardinality(mortgage_events) < MaxReviewEvents
       /\ \E k \in {3, 4} :
            add_principal_payment([day |-> iso_date(today + k), amount |-> 500,
                                   note |-> None])
    \/ /\ Cardinality(mortgage_events) < MaxReviewEvents
       /\ add_balance_check([day |-> iso_date(today), principal_balance |-> 300000,
                             note |-> None])
    \/ /\ Cardinality(gifts) < MaxReviewEvents
       /\ \E k \in {-4, -3} :
            add_gift([day |-> iso_date(today + k), description |-> "flowers",
                      amount |-> 0])
    \/ \E anchor_day \in {NoneText, iso_date(today - 7)} : weekly_review(anchor_day)

SpecReview == Init /\ [][NextReview]_vars

\* the Sunday on or before a date
SundayOnOrBefore(a) == CHOOSE s \in (a - 6)..a : Weekday(s) = 6

\* the records of a collection dated in the week of a date
WeekRecords(coll, a) ==
    LET sunday == SundayOnOrBefore(a)
    IN  {doc \in coll : parse_date(doc.day) \in sunday..(sunday + 6)}

\* C9: for every store state and anchor, weekly_review returns five
\* independent booleans over the records dated in the anchor's week:
\* wakeups_ge_4 iff at least 4 check-ins have wakeup_5am true,
\* workouts_completed_5 iff at least 5 have workout true,
\* captured_at_least_1_video iff at least 1 has video_captured true,
\* mortgage_action_taken iff a mortgage event of either kind exists,
\* relationship_action_taken iff a gift exists; records outside the week
\* affect none of them.  (`call` holds the review of the store as it is:
\* every write replaces `call`.)
C9_ReviewThresholds ==
    (call.op = "weekly_review" /\ call.status = 200) =>
      LET a == AnchorOf(call.anchor_day)
          week == WeekRecords(checkins, a)
      IN  /\ call.body.wakeups_ge_4
               <=> (Cardinality({c \in week : c.wakeup_5am}) >= 4)
          /\ call.body.workouts_completed_5
               <=> (Cardinality({c \in week : c.workout}) >= 5)
          /\ call.body.captured_at_least_1_video
               <=> (\E c \in week : c.video_captured)
          /\ call.body.mortgage_action_taken
               <=> (WeekRecords(mortgage_events, a) # {})
          /\ call.body.relationship_action_taken
               <=> (WeekRecords(gifts, a) # {})

\* this week's review found four wake-ups but not five workouts, a gift but
\* no mortgage action and no video, while a payment, a check-in and a video
\* dated outside the week are stored
C9_Witness ==
    /\ call.op = "weekly_review" /\ call.status = 200
    /\ call.anchor_day = NoneText
    /\ call.body.wakeups_ge_4 /\ ~call.body.workouts_completed_5
    /\ ~call.body.captured_at_least_1_video
    /\ ~call.body.mortgage_action_taken /\ call.body.relationship_action_taken
    /\ mortgage_events # {}
    /\ \E doc \in checkins : doc.day = iso_date(today - 4) /\ doc.video_captured

\* this week's review found five workouts and a balance check
C9_WitnessWorkouts ==
    /\ call.op = "weekly_review" /\ call.status = 200
    /\ call.anchor_day = NoneText
    /\ call.body.workouts_completed_5 /\ call.body.mortgage_action_taken
    /\ \E event \in mortgage_events : event.kind = "balance_check"

(***************************************************************************)
(* The weight scenario: weights at and around the two ends of the range    *)
(* are posted, for today or with an unreadable day.                        *)
(***************************************************************************)
WeightPayloads ==
    [day : {iso_date(today), BadText}, weight_lbs : {79, 80, 81, 399, 400, 401}]

NextWeight ==
    \/ on_startup
    \/ Tick
    \/ \E payload \in WeightPayloads : add_weight(payload)

SpecWeight == Init /\ [][NextWeight]_vars

\* C10: add_weight answers every weight_lbs below 80 or above 400 with a
\* client error and stores nothing; every weight_lbs from 80 to 400, the two
\* ends included, is accepted and stored as it was given, never pulled to a
\* bound.
C10_WeightRange ==
    [][\A payload \in WeightPayloads :
         add_weight(payload) =>
           IF payload.weight_lbs < 80 \/ payload.weight_lbs > 400
           THEN call'.status = 400 /\ metrics' = metrics
           ELSE IsIsoDate(payload.day) =>
                  /\ call'.status = 200
                  /\ call'.body.value = payload.weight_lbs
                  /\ \E doc \in metrics' :
                       /\ metrics' \ metrics = {doc}
                       /\ metrics \subseteq metrics'
                       /\ doc.kind = "weight"
                       /\ doc.day = payload.day
                       /\ doc.value = payload.weight_lbs]_vars

\* weights of exactly 80 and exactly 400 are stored, and a weight of 401 was
\* just refused
C10_Witness ==
    /\ \E doc \in metrics : doc.value = 80
    /\ \E doc \in metrics : doc.value = 400
    /\ call.op = "add_weight" /\ call.status = 400
    /\ call.detail = "weight_lbs out of range"

(***************************************************************************)
(* The body-fat scenario: the same days and values are posted through the  *)
(* body-fat route and through its deprecated alias.                        *)
(***************************************************************************)
BodyFatValues == {2, 3, 20, 70, 71}

NextBodyFat ==
    \/ on_startup
    \/ Tick
    \/ \E day \in DayTexts(0), v \in BodyFatValues :
         add_body_fat([day |-> day, body_fat_pct |-> v])
    \/ \E day \in DayTexts(0), v \in BodyFatValues :
         add_waist([day |-> day, waist_in |-> v])

SpecBodyFat == Init /\ [][NextBodyFat]_vars

\* the outcome of posting value v for a day as a body-fat measurement: a
\* client error and an unchanged store out of [3, 70] or with an unreadable
\* day, else one new record of kind body_fat with the day and the value,
\* returned as it was stored
BodyFatOutcome(day, v) ==
    IF v < 3 \/ v > 70 \/ ~IsIsoDate(day)
    THEN call'.status = 400 /\ metrics' = metrics
    ELSE /\ call'.status = 200
         /\ metrics \subseteq metrics'
         /\ \E doc \in metrics' :
              /\ metrics' \ metrics = {doc}
              /\ doc.kind = "body_fat" /\ doc.day = day /\ doc.value = v
              /\ doc._id \notin Ids(metrics)
              /\ doc.created_at = now
              /\ call'.body = [id |-> doc._id, day |-> day, kind |-> "body_fat",
                               value |-> v, created_at |-> doc.created_at]

\* C11: add_body_fat rejects every value outside [3, 70] and stores nothing;
\* add_waist with waist_in = v has the outcome of add_body_fat with
\* body_fat_pct = v for every day and v: the same decision and, when
\* accepted, a record of kind body_fat with the same day and value; no
\* record of kind waist is ever stored.
C11_WaistIsBodyFat ==
    [][/\ \A day \in DayTexts(0), v \in BodyFatValues :
            /\ add_body_fat([day |-> day, body_fat_pct |-> v]) => BodyFatOutcome(day, v)
            /\ add_waist([day |-> day, waist_in |-> v]) => BodyFatOutcome(day, v)
       /\ \A doc \in metrics' : doc.kind # "waist"]_vars

\* the alias stored 70 as a body-fat record next to one stored by the
\* body-fat route, and the alias was refused a 71
C11_Witness ==
    /\ \E a, b \in metrics :
         /\ a # b /\ a.kind = "body_fat" /\ b.kind = "body_fat"
         /\ a.value = 70 /\ b.value = 70 /\ a.day = b.day
    /\ call.op = "add_waist" /\ call.status = 400
    /\ call.detail = "body_fat_pct out of range"

(***************************************************************************)
(* The metrics scenario: weights are posted for yesterday and today, the   *)
(* same day and value more than once, and the metrics are read over ranges *)
(* that cover both days, one of them, or neither.                          *)
(***************************************************************************)
MetricWeights == [day : {iso_date(today - 1), iso_date(today)}, weight_lbs : {175, 180}]

MetricRangeTexts == {iso_date(today - k) : k \in 0..2}

NextMetrics ==
    \/ on_startup
    \/ \E payload \in MetricWeights : add_weight(payload)
    \/ \E start, end \in MetricRangeTexts : get_fitness_metrics(start, end)

SpecMetrics == Init /\ [][NextMetrics]_vars

\* the stored records dated from start to end
DatedWithin(coll, start, end) ==
    {doc \in coll : parse_date(doc.day) \in parse_date(start)..parse_date(end)}

\* C12: metric entries are append-only and not deduplicated by day: every
\* accepted add_weight adds exactly one new record and changes no stored one,
\* so the same (day, weight) posted twice gives two records in a range read
\* that covers the day; latest.weight_lbs of get_fitness_metrics is the value
\* of a weight entry whose day is maximal among all stored weight entries,
\* whatever range was requested.
C12_MetricsAppendOnly ==
    [][/\ metrics \subseteq metrics'
       /\ \A payload \in MetricWeights :
            add_weight(payload) =>
              /\ call'.status = 200
              /\ \E doc \in metrics' \ metrics :
                   /\ metrics' = metrics \cup {doc}
                   /\ doc.day = payload.day /\ doc.value = payload.weight_lbs
       /\ \A start, end \in MetricRangeTexts :
            (get_fitness_metrics(start, end) /\ call'.status = 200) =>
              LET out == call'.body.metrics
                  weights == {doc \in metrics : doc.kind = "weight"}
              IN  /\ Len(out) = Cardinality(DatedWithin(metrics, start, end))
                  /\ {out[i].id : i \in DOMAIN out}
                       = Ids(DatedWithin(metrics, start, end))
                  /\ IF weights = {}
                     THEN call'.body.latest.weight_lbs = {}
                     ELSE \E doc \in weights :
                            /\ \A other \in weights :
                                 parse_date(other.day) <= parse_date(doc.day)
                            /\ call'.body.latest.weight_lbs = {doc.value}]_vars

\* 180 was posted twice for yesterday: a read of yesterday returned both
\* records and a latest weight of 180
C12_Witness ==
    /\ call.op = "get_fitness_metrics" /\ call.status = 200
    /\ Len(call.body.metrics) = 2
    /\ \A i \in 1..2 :
         call.body.metrics[i].day = iso_date(today - 1) /\ call.body.metrics[i].value = 180
    /\ call.body.metrics[1].id # call.body.metrics[2].id
    /\ call.body.latest.weight_lbs = {180}

\* a read of a range without entries returned today's weight, posted before
\* yesterday's, as the latest
C12_WitnessOutOfRange ==
    /\ call.op = "get_fitness_metrics" /\ call.status = 200
    /\ Len(call.body.metrics) = 0
    /\ call.body.latest.weight_lbs = {175}
    /\ \E a, b \in metrics :
         /\ a.day = iso_date(today) /\ a.value = 175
         /\ b.day = iso_date(today - 1) /\ b.value = 180 /\ a._id < b._id

(***************************************************************************)
(* The trip history under every operation of the reset scenario.           *)
(***************************************************************************)
\* every entry of the history before the step is in the history after it,
\* with its trip_id, created_at and snapshot
HistoryKept ==
    \A entry \in trip_history :
       \E kept \in trip_history' :
          /\ kept._id = entry._id /\ kept.trip_id = entry.trip_id
          /\ kept.created_at = entry.created_at /\ kept.snapshot = entry.snapshot

C13_WitnessKept ==
    /\ call.op = "admin_reset" /\ call.status = 400
    /\ trip_history # {}

(***************************************************************************)
(* Store faults.  A store call that raises (the store is unreachable, a    *)
(* write is refused) is not caught by any handler: the request ends in 500 *)
(* and the store calls the handler made before it keep their effect.       *)
(***************************************************************************)
StoreFault(op, failed) ==
    [op |-> op, status |-> 500, detail |-> "Internal Server Error", failed |-> failed]

\* update_trip with one of its two writes raising: trip.update_one, or the
\* trip_history.insert_one that follows it when a prior document was read
update_trip_store_error(payload, failed) ==
    /\ started
    /\ UNCHANGED <<started, today, now, pending, checkins, metrics, photos,
                   mortgage_events, gifts, settings, uploads, trip_history>>
    /\ LET ts == now_utc
           sd == TextOrEmpty(payload.start_date)
           ed == TextOrEmpty(payload.end_date)
           prev == trip
       IN  /\ TripDatesError(sd, ed) = ""
           /\ \/ /\ failed = "trip.update_one"
                 /\ UNCHANGED trip
              \/ /\ failed = "trip_history.insert_one"
                 /\ prev # {}
                 /\ trip' = TripSet(trip, payload, sd, ed, ts)
           /\ call' = StoreFault("update_trip", failed)

\* for c in collections_to_clear, in the order of the list, then the trip
collections_in_order ==
    <<"checkins", "metrics", "photos", "mortgage_events", "gifts", "trip_history">>

\* what the first `done` delete_many calls leave of a collection
AfterDeletes(name, coll, done) ==
    IF \E i \in 1..done : collections_in_order[i] = name THEN {} ELSE coll

\* admin_reset with its store call number `done + 1` raising: one of the six
\* delete_many, or the trip's update_one after them
admin_reset_store_error(done) ==
    /\ started
    /\ done \in 0..Len(collections_in_order)
    /\ UNCHANGED <<started, today, now, pending, settings, uploads, trip>>
    /\ checkins' = AfterDeletes("checkins", checkins, done)
    /\ metrics' = AfterDeletes("metrics", metrics, done)
    /\ photos' = AfterDeletes("photos", photos, done)
    /\ mortgage_events' = AfterDeletes("mortgage_events", mortgage_events, done)
    /\ gifts' = AfterDeletes("gifts", gifts, done)
    /\ trip_history' = AfterDeletes("trip_history", trip_history, done)
    /\ call' = StoreFault("admin_reset",
                          IF done < Len(collections_in_order)
                          THEN collections_in_order[done + 1] ELSE "trip.update_one")

(***************************************************************************)
(* The fault scenario: the reset scenario's writes, with trip updates and  *)
(* resets that meet a store fault.                                         *)
(***************************************************************************)
NextFault ==
    \/ on_startup
    \/ /\ Cardinality(checkins) < MaxResetDocs
       /\ upsert_checkin([day |-> iso_date(today), wakeup_5am |-> TRUE,
                          workout |-> TRUE, video_captured |-> FALSE,
                          notes |-> None])
    \/ /\ Cardinality(metrics) < MaxResetDocs
       /\ add_weight([day |-> iso_date(today), weight_lbs |-> 180])
    \/ /\ Cardinality(gifts) < MaxResetDocs
       /\ add_gift([day |-> iso_date(today), description |-> "flowers", amount |-> 25])
    \/ update_trip(ResetTrip)
    \/ admin_reset("RESET")
    \/ \E failed \in {"trip.update_one", "trip_history.insert_one"} :
         update_trip_store_error(ResetTrip, failed)
    \/ \E done \in 0..Len(collections_in_order) : admin_reset_store_error(done)

SpecFault == Init /\ [][NextFault]_vars

\* C14 (as claimed): every write handler is all-or-nothing: a request that
\* ends in a store fault leaves every collection as it was before the
\* request: never a trip document updated without its history entry, never
\* a reset that cleared some collections and not others.
C14_AllOrNothing ==
    [][call'.status = 500 =>
         /\ UNCHANGED <<checkins, metrics, photos, mortgage_events, gifts, trip,
                        trip_history, settings>>]_vars

(***************************************************************************)
(* Concurrent requests.  The handlers are coroutines on one event loop:    *)
(* a request runs until it awaits a store call, and other requests run     *)
(* before it resumes.  A pending request is a record of its handler and    *)
(* the store call it awaits; each action is one store call with the code   *)
(* up to the next await.                                                   *)
(***************************************************************************)
\* the request r, resumed later at the store call pc
Advance(r, pc) == (pending \ {r}) \cup {[r EXCEPT !.pc = pc]}

\* a request reaches its handler's first store call
request_arrives(op, pc) ==
    /\ started
    /\ Cardinality(pending) < MaxRequests
    /\ pending' = pending \cup {[id |-> new_id({r.id : r \in pending}), op |-> op,
                                 pc |-> pc, prev |-> {}, deleted |-> <<>>]}
    /\ UNCHANGED <<started, today, now, store, call>>

\* get_settings_doc: doc = find_one({"_id": "default"}); a document found is
\* returned and get_settings answers with it
get_settings_doc_find_one(r) ==
    /\ r \in pending /\ r.pc = "settings.find_one"
    /\ IF settings # {}
       THEN /\ pending' = pending \ {r}
            /\ call' = [op |-> r.op, status |-> 200,
                        body |-> SettingsResponse(CHOOSE doc \in settings : TRUE)]
       ELSE /\ pending' = Advance(r, "settings.insert_one")
            /\ UNCHANGED call
    /\ UNCHANGED <<started, today, now, store>>

\* get_settings_doc: insert_one({"_id": "default", ...}) after a find_one
\* that found nothing; the _id index refuses a second "default"
\* (DuplicateKeyError), which nothing catches
get_settings_doc_insert_one(r) ==
    /\ r \in pending /\ r.pc = "settings.insert_one"
    /\ IF settings = {}
       THEN /\ settings' = {[_id |-> "default", updated_at |-> now_utc]}
            /\ pending' = Advance(r, "settings.find_one")
            /\ UNCHANGED call
       ELSE /\ pending' = pending \ {r}
            /\ call' = StoreFault(r.op, "settings.insert_one")
            /\ UNCHANGED settings
    /\ UNCHANGED <<started, today, now, checkins, metrics, photos,
                   mortgage_events, gifts, trip, trip_history, uploads>>

\* update_settings: update_one($set, upsert=True), then get_settings()
update_settings_update_one(r, payload) ==
    /\ r \in pending /\ r.pc = "settings.update_one" /\ r.op = "update_settings"
    /\ settings' =
         SetFields(settings,
                   [sendgrid_api_key |-> OrEmpty(payload.sendgrid_api_key),
                    sendgrid_sender_email |-> OrEmpty(payload.sendgrid_sender_email),
                    reminder_recipient_email |-> OrEmpty(payload.reminder_recipient_email),
                    weekly_review_day |-> payload.weekly_review_day,
                    weekly_review_hour_local |-> payload.weekly_review_hour_local,
                    monthly_gift_day |-> payload.monthly_gift_day,
                    email_enabled |-> payload.email_enabled,
                    updated_at |-> now_utc])
    /\ pending' = Advance(r, "settings.find_one")
    /\ UNCHANGED <<started, today, now, checkins, metrics, photos,
                   mortgage_events, gifts, trip, trip_history, uploads, call>>

\* the startup of another worker process: its $setOnInsert upsert of the
\* settings document, then that of the trip document
on_startup_settings_upsert(r) ==
    /\ r \in pending /\ r.pc = "settings.update_one" /\ r.op = "on_startup"
    /\ settings' = SetOnInsert(settings, [_id |-> "default", updated_at |-> now_utc])
    /\ pending' = Advance(r, "trip.update_one")
    /\ UNCHANGED <<started, today, now, checkins, metrics, photos,
                   mortgage_events, gifts, trip, trip_history, uploads, call>>

on_startup_trip_upsert(r) ==
    /\ r \in pending /\ r.pc = "trip.update_one" /\ r.op = "on_startup"
    /\ trip' = SetOnInsert(trip, DefaultTrip(now_utc))
    /\ pending' = pending \ {r}
    /\ UNCHANGED <<started, today, now, checkins, metrics, photos,
                   mortgage_events, gifts, settings, trip_history, uploads, call>>

\* update_trip: prev = find_one({"_id": "default"}), kept by the request
update_trip_find_one(r) ==
    /\ r \in pending /\ r.pc = "trip.find_one" /\ r.op = "update_trip"
    /\ pending' = (pending \ {r}) \cup {[r EXCEPT !.pc = "trip.update_one", !.prev = trip]}
    /\ UNCHANGED <<started, today, now, store, call>>

\* update_trip: update_one($set, upsert=True) with dates that passed
update_trip_update_one(r, payload) ==
    /\ r \in pending /\ r.pc = "trip.update_one" /\ r.op = "update_trip"
    /\ trip' = TripSet(trip, payload, TextOrEmpty(payload.start_date),
                       TextOrEmpty(payload.end_date), now_utc)
    /\ pending' = Advance(r, IF r.prev # {} THEN "trip_history.insert_one"
                             ELSE "get_trip")
    /\ UNCHANGED <<started, today, now, checkins, metrics, photos,
                   mortgage_events, gifts, settings, trip_history, uploads, call>>

\* update_trip: `if prev:` insert_one of the snapshot of prev
update_trip_insert_one(r) ==
    /\ r \in pending /\ r.pc = "trip_history.insert_one"
    /\ trip_history' =
         trip_history \cup {TripHistoryDoc(new_id(Ids(trip_history)),
                                           CHOOSE doc \in r.prev : TRUE, now_utc)}
    /\ pending' = Advance(r, "get_trip")
    /\ UNCHANGED <<started, today, now, checkins, metrics, photos,
                   mortgage_events, gifts, settings, trip, uploads, call>>

\* update_trip: return await get_trip()
update_trip_get_trip(r) ==
    /\ r \in pending /\ r.pc = "get_trip"
    /\ call' = GetTripReply(r.op, trip)
    /\ pending' = pending \ {r}
    /\ UNCHANGED <<started, today, now, store>>

\* The singletons are gone when the requests arrive (see
\* trip_document_missing): the handlers create them on first use.
singletons_missing ==
    /\ started
    /\ pending = {}
    /\ settings # {} \/ trip # {}
    /\ settings' = {}
    /\ trip' = {}
    /\ UNCHANGED <<started, today, now, pending, checkins, metrics, photos,
                   mortgage_events, gifts, trip_history, uploads, call>>

(***************************************************************************)
(* The first-use scenario: with the singletons missing, reads and updates  *)
(* of the settings, trip updates and another worker's startup are served   *)
(* concurrently.                                                           *)
(***************************************************************************)
NextFirstUse ==
    \/ on_startup
    \/ singletons_missing
    \/ request_arrives("get_settings", "settings.find_one")
    \/ request_arrives("update_settings", "settings.update_one")
    \/ request_arrives("on_startup", "settings.update_one")
    \/ /\ trip_history = {} /\ \A r \in pending : r.op # "update_trip"
       /\ request_arrives("update_trip", "trip.find_one")
    \/ \E r \in pending : get_settings_doc_find_one(r)
    \/ \E r \in pending : get_settings_doc_insert_one(r)
    \/ \E r \in pending : update_settings_update_one(r, ResetSettings)
    \/ \E r \in pending : on_startup_settings_upsert(r)
    \/ \E r \in pending : on_startup_trip_upsert(r)
    \/ \E r \in pending : update_trip_find_one(r)
    \/ \E r \in pending : update_trip_update_one(r, ResetTrip)
    \/ \E r \in pending : update_trip_insert_one(r)
    \/ \E r \in pending : update_trip_get_trip(r)

SpecFirstUse == Init /\ [][NextFirstUse]_vars

\* C15 (as claimed): under any interleaving of concurrent first-time
\* initializations of a singleton (startup's upserts, get_settings_doc's
\* find-then-insert, update_settings, update_trip) each singleton collection
\* holds at most one document with id "default", exactly one once the
\* requests are served, and no participating request fails because of the
\* race.
C15_FirstUseRace ==
    /\ \A coll \in {settings, trip} :
         Cardinality({doc \in coll : doc._id = "default"}) <= 1
    /\ call.op \in {"get_settings", "update_settings", "update_trip", "on_startup"}
         => call.status = 200

(***************************************************************************)
(* The legacy scenario: the store already holds measurements that an       *)
(* earlier release wrote with kind "waist" when the process starts; body   *)
(* fat and weight are then posted and the metrics read.                    *)
(***************************************************************************)
\* a record an earlier release stored, found in the store at startup
legacy_waist_stored(k, v) ==
    /\ ~started
    /\ Cardinality(metrics) < MaxDocs
    /\ metrics' = metrics \cup {MetricDoc(new_id(Ids(metrics)), today - k, "waist",
                                          v, now_utc)}
    /\ UNCHANGED <<started, today, now, pending, checkins, photos,
                   mortgage_events, gifts, trip, trip_history, settings, uploads,
                   call>>

NextLegacy ==
    \/ on_startup
    \/ \E k \in 0..1 : legacy_waist_stored(k, 34 - k)
    \/ \E k \in 0..1 : add_body_fat([day |-> iso_date(today - k), body_fat_pct |-> 20 + k])
    \/ add_weight([day |-> iso_date(today), weight_lbs |-> 180])
    \/ \E start, end \in MetricRangeTexts : get_fitness_metrics(start, end)

SpecLegacy == Init /\ [][NextLegacy]_vars

\* C16: in every store state, legacy records of kind waist included, every
\* metric get_fitness_metrics returns has kind weight or body_fat, a stored
\* waist record being returned as body_fat, and the latest body-fat value is
\* that of a record of latest day among the records of kind body_fat and of
\* kind waist.  (`call` holds the read of the store as it is: every write
\* after startup replaces `call`.)
C16_LegacyWaistRead ==
    (call.op = "get_fitness_metrics" /\ call.status = 200) =>
      LET out == call.body.metrics
          measured == {doc \in metrics : doc.kind \in {"body_fat", "waist"}}
      IN  /\ \A i \in DOMAIN out :
               /\ out[i].kind \in {"weight", "body_fat"}
               /\ \E doc \in metrics :
                    /\ doc._id = out[i].id /\ doc.value = out[i].value
                    /\ doc.kind = "weight" <=> out[i].kind = "weight"
          /\ IF measured = {}
             THEN call.body.latest.body_fat_pct = {}
             ELSE \E doc \in measured :
                    /\ \A other \in measured :
                         parse_date(other.day) <= parse_date(doc.day)
                    /\ call.body.latest.body_fat_pct = {doc.value}

\* a read returned today's legacy waist record as body_fat, and its value as
\* the latest body fat although a body_fat record of yesterday is stored
C16_Witness ==
    /\ call.op = "get_fitness_metrics" /\ call.status = 200
    /\ \E i \in DOMAIN call.body.metrics, doc \in metrics :
         /\ doc._id = call.body.metrics[i].id
         /\ doc.kind = "waist" /\ doc.day = iso_date(today)
         /\ call.body.metrics[i].kind = "body_fat"
         /\ call.body.latest.body_fat_pct = {doc.value}
    /\ \E doc \in metrics : doc.kind = "body_fat" /\ doc.day = iso_date(today - 1)

(***************************************************************************)
(* The reminders of the dashboard summary, in the summary scenario.        *)
(***************************************************************************)
\* the reminders of a summary response with one of the ids, as (id, severity)
RemindersAmong(ids) ==
    {<<reminder.id, reminder.severity>> :
       reminder \in {call.body.reminders[i] : i \in DOMAIN call.body.reminders}}
      \cap (ids \X {"info", "warning"})

\* the days from the latest entry of a set of metric records to today
DaysSinceLatest(docs) ==
    today - (CHOOSE d \in {parse_date(doc.day) : doc \in docs} :
               \A doc \in docs : parse_date(doc.day) <= d)

\* C17 (as claimed): the summary's reminders list contains weight-missing
\* with severity info iff no weight entry exists, weight-overdue with
\* severity warning iff the latest weight entry is dated 7 or more days
\* before today, and neither otherwise, whatever the other reminders.
C17_WeightReminder ==
    call.op = "summary" =>
      /\ call.status = 200
      /\ LET weights == {doc \in metrics : doc.kind = "weight"}
         IN  RemindersAmong({"weight-missing", "weight-overdue"}) =
               IF weights = {} THEN {<<"weight-missing", "info">>}
               ELSE IF DaysSinceLatest(weights) >= 7
                    THEN {<<"weight-overdue", "warning">>}
               ELSE {}

\* C18 (as claimed): the summary's reminders list contains the body-fat /
\* waist reminder iff the latest measurement of kind body_fat or waist is
\* dated 14 or more days before today (severity warning) or no such
\* measurement exists (severity info), and none when a newer one exists.
C18_BodyFatReminder ==
    call.op = "summary" =>
      /\ call.status = 200
      /\ LET measured == {doc \in metrics : doc.kind \in {"body_fat", "waist"}}
         IN  RemindersAmong({"waist-missing", "waist-overdue"}) =
               IF measured = {} THEN {<<"waist-missing", "info">>}
               ELSE IF DaysSinceLatest(measured) >= 14
                    THEN {<<"waist-overdue", "warning">>}
               ELSE {}

(***************************************************************************)
(* The bad-day scenario: each of the eight dated writes is requested for   *)
(* today and with day texts that are no calendar date: month 13, the 30th  *)
(* of February, the empty text.                                            *)
(***************************************************************************)
BadDayTexts == {BadText, Text(2026, 2, 30), EmptyText}

\* a dated write for the day, its other fields valid (a collection of the
\* scenario takes MaxResetDocs records)
DatedWrite(day) ==
    \/ /\ IsIsoDate(day) => Cardinality(checkins) < MaxResetDocs
       /\ upsert_checkin([day |-> day, wakeup_5am |-> TRUE, workout |-> TRUE,
                          video_captured |-> FALSE, notes |-> None])
    \/ /\ IsIsoDate(day) => Cardinality(metrics) < MaxResetDocs
       /\ \/ add_weight([day |-> day, weight_lbs |-> 180])
          \/ add_body_fat([day |-> day, body_fat_pct |-> 20])
          \/ add_waist([day |-> day, waist_in |-> 21])
    \/ /\ IsIsoDate(day) => Cardinality(photos) < MaxResetDocs
       /\ upload_photo(day, [filename |-> "a.jpg", size |-> 1024])
    \/ /\ IsIsoDate(day) => Cardinality(mortgage_events) < MaxResetDocs
       /\ \/ add_principal_payment([day |-> day, amount |-> 500, note |-> None])
          \/ add_balance_check([day |-> day, principal_balance |-> 300000,
                                note |-> None])
    \/ /\ IsIsoDate(day) => Cardinality(gifts) < MaxResetDocs
       /\ add_gift([day |-> day, description |-> "flowers", amount |-> 25])

NextBadDay ==
    \/ on_startup
    \/ \E day \in {iso_date(today)} \cup BadDayTexts : DatedWrite(day)

SpecBadDay == Init /\ [][NextBadDay]_vars

\* C19: each dated write (upsert_checkin, add_weight, add_body_fat,
\* add_waist, upload_photo, add_principal_payment, add_balance_check,
\* add_gift) given a day text that is no ISO calendar date answers with a
\* client error and leaves every collection, and the uploaded files,
\* unchanged: the date check comes before every store or file write.
C19_BadDayRejected ==
    [][\A day \in BadDayTexts :
         DatedWrite(day) =>
           /\ call'.status = 400 /\ call'.detail = InvalidDate
           /\ UNCHANGED <<checkins, metrics, photos, mortgage_events, gifts, trip,
                          trip_history, settings, uploads>>]_vars

\* an upload for the 30th of February has just been refused, with records
\* of every kind and an uploaded file stored
C19_Witness ==
    /\ call.op = "upload_photo" /\ call.status = 400 /\ call.detail = InvalidDate
    /\ checkins # {} /\ metrics # {} /\ photos # {} /\ mortgage_events # {}
    /\ gifts # {} /\ uploads # {}

(***************************************************************************)
(* Photo records and photo files under a reset, in the reset scenario.     *)
(***************************************************************************)
\* C20: a successful admin_reset removes every photo record and leaves the
\* set of uploaded photo files unchanged: the files uploaded before it are
\* still in storage after it, referenced by no photo record.
C20_ResetKeepsFiles ==
    [][admin_reset("RESET") =>
         /\ photos' = {}
         /\ uploads' = uploads
         /\ \A file \in uploads' : \A photo \in photos' : photo.filename # file]_vars

\* a reset has just removed the record of a photo whose file is in storage
C20_Witness ==
    /\ call.op = "admin_reset" /\ call.status = 200
    /\ call.body.deleted.photos = 1
    /\ photos = {}
    /\ \E file \in uploads : file.ext = ".png"

(***************************************************************************)
(* admin_reset, one store call at a time: `for c in collections_to_clear`  *)
(* awaits one delete_many per collection and other requests are served     *)
(* between them.  The request keeps `deleted`, here the counts in the      *)
(* order of the list.                                                      *)
(***************************************************************************)
\* the collection of that name
Collection(name) ==
    CASE name = "checkins" -> checkins
      [] name = "metrics" -> metrics
      [] name = "photos" -> photos
      [] name = "mortgage_events" -> mortgage_events
      [] name = "gifts" -> gifts
      [] name = "trip_history" -> trip_history

\* res = await mongo_db[c].delete_many({}); deleted[c] = res.deleted_count
admin_reset_delete_many(r) ==
    /\ r \in pending /\ r.op = "admin_reset" /\ r.pc = "delete_many"
    /\ LET c == collections_in_order[Len(r.deleted) + 1]
           Left(name) == IF name = c THEN AfterClear(name, Collection(name))
                         ELSE Collection(name)
       IN  /\ checkins' = Left("checkins")
           /\ metrics' = Left("metrics")
           /\ photos' = Left("photos")
           /\ mortgage_events' = Left("mortgage_events")
           /\ gifts' = Left("gifts")
           /\ trip_history' = Left("trip_history")
           /\ pending' =
                (pending \ {r}) \cup
                  {[r EXCEPT !.deleted = Append(@, DeletedCount(c, Collection(c))),
                             !.pc = IF Len(r.deleted) + 1 < Len(collections_in_order)
                                    THEN "delete_many" ELSE "trip.update_one"]}
    /\ UNCHANGED <<started, today, now, settings, trip, uploads, call>>

\* the trip's update_one to the defaults, and the reply
admin_reset_update_one(r) ==
    /\ r \in pending /\ r.op = "admin_reset" /\ r.pc = "trip.update_one"
    /\ trip' = SetFields(trip, [start_date |-> EmptyText,
                                end_date |-> EmptyText, dates |-> "",
                                adults_only |-> TRUE,
                                lodging_booked |-> FALSE,
                                childcare_confirmed |-> FALSE,
                                notes |-> "", updated_at |-> now_utc])
    /\ call' = [op |-> "admin_reset", status |-> 200,
                body |-> [ok |-> TRUE,
                          deleted |-> [checkins |-> r.deleted[1],
                                       metrics |-> r.deleted[2],
                                       photos |-> r.deleted[3],
                                       mortgage_events |-> r.deleted[4],
                                       gifts |-> r.deleted[5],
                                       trip_history |-> r.deleted[6]]]]
    /\ pending' = pending \ {r}
    /\ UNCHANGED <<started, today, now, checkins, metrics, photos,
                   mortgage_events, gifts, trip_history, settings, uploads>>

(***************************************************************************)
(* The concurrent-reset scenario: check-ins, weights and gifts are written *)
(* while resets are served, either without another request in between      *)
(* (admin_reset) or one store call at a time.                              *)
(***************************************************************************)
NextResetRace ==
    \/ on_startup
    \/ /\ Cardinality(checkins) < MaxResetDocs
       /\ upsert_checkin([day |-> iso_date(today), wakeup_5am |-> TRUE,
                          workout |-> TRUE, video_captured |-> FALSE,
                          notes |-> None])
    \/ /\ Cardinality(metrics) < MaxResetDocs
       /\ add_weight([day |-> iso_date(today), weight_lbs |-> 180])
    \/ /\ Cardinality(gifts) < MaxResetDocs
       /\ add_gift([day |-> iso_date(today), description |-> "flowers", amount |-> 25])
    \/ admin_reset("RESET")
    \/ /\ \A r \in pending : r.op # "admin_reset"
       /\ request_arrives("admin_reset", "delete_many")
    \/ \E r \in pending : admin_reset_delete_many(r)
    \/ \E r \in pending : admin_reset_update_one(r)

SpecResetRace == Init /\ [][NextResetRace]_vars

\* the count of each collection as a record, as the reset's reply lists them
CountsOf(c1, c2, c3, c4, c5, c6) ==
    [checkins |-> Cardinality(c1), metrics |-> Cardinality(c2),
     photos |-> Cardinality(c3), mortgage_events |-> Cardinality(c4),
     gifts |-> Cardinality(c5), trip_history |-> Cardinality(c6)]

\* C21: a successful admin_reset served with no other request in between
\* reports for each collection it clears the number of records the
\* collection held when the reset began, and each of those collections is
\* empty when it returns; served one store call at a time, each delete_many
\* reports the number of records its collection held at that call and
\* leaves it empty, so that with a writer between the deletes a collection
\* already cleared can be non-empty when the reset returns (the witness).
C21_ResetCounts ==
    [][/\ admin_reset("RESET") =>
            /\ call'.body.deleted = CountsOf(checkins, metrics, photos,
                                             mortgage_events, gifts, trip_history)
            /\ \A name \in collections_to_clear : Collection(name)' = {}
       /\ \A r \in pending :
            admin_reset_delete_many(r) =>
              LET c == collections_in_order[Len(r.deleted) + 1]
              IN  /\ Collection(c)' = {}
                  /\ \E q \in pending' :
                       /\ q.id = r.id
                       /\ q.deleted = Append(r.deleted, Cardinality(Collection(c)))]_vars

\* a reset served one store call at a time has returned, it reported the
\* check-in it deleted, and the check-ins, cleared first, hold a record
\* that was written between its deletes
C21_Witness ==
    /\ call.op = "admin_reset" /\ call.status = 200
    /\ call.body.deleted.checkins > 0
    /\ checkins # {}

\* a reset served without another request in between returned on a store
\* with records in three collections
C21_WitnessQuiet ==
    /\ call.op = "admin_reset" /\ call.status = 200
    /\ call.body.deleted.checkins > 0 /\ call.body.deleted.metrics > 0
    /\ call.body.deleted.gifts > 0
    /\ pending = {}
    /\ \A name \in collections_to_clear : Collection(name) = {}

(***************************************************************************)
(* The mortgage roll-up.                                                   *)
(***************************************************************************)
\* {"$match": {"kind": ..., "day": {"$gte": lo, "$lte": hi}}} with the kind
\* left out
MatchedOfAnyKind(kind, lo, hi) == InRange(mortgage_events, lo, hi)

\* {"$match": {"kind": kind, "day": {"$gte": lo, "$lte": hi}}}
Matched(kind, lo, hi) ==
    {doc \in InRange(mortgage_events, lo, hi) : doc.kind = kind}

\* {"$group": {"_id": None, "sum": {"$sum": "$amount"}}}; 0.0 when the
\* aggregation returns no group
RECURSIVE SumAmount(_)
SumAmount(docs) ==
    IF docs = {} THEN 0
    ELSE LET doc == CHOOSE doc \in docs : TRUE
         IN  doc.amount + SumAmount(docs \ {doc})

\* latest_principal_balance is the set of at most one amount (None: empty)
mortgage_summary ==
    /\ started
    /\ UNCHANGED <<started, today, now, pending, store>>
    /\ LET balances == {doc \in mortgage_events : doc.kind = "balance_check"}
           y_start == Date(DateYear(today), 1, 1)
           m_start == Date(DateYear(today), DateMonth(today), 1)
           ytd_payments ==
             Matched("principal_payment", iso_date(y_start), iso_date(today))
           month_payments ==
             Matched("principal_payment", iso_date(m_start), iso_date(today))
       IN  \E latest_bal \in IF balances = {} THEN {{}}
                             ELSE {{doc} : doc \in LatestByDay(balances)} :
             call' = [op |-> "mortgage_summary", status |-> 200,
                      body |-> [latest_principal_balance |->
                                  {doc.amount : doc \in latest_bal},
                                principal_paid_extra_ytd |-> SumAmount(ytd_payments),
                                principal_paid_extra_month |->
                                  SumAmount(month_payments)]]

(***************************************************************************)
(* The roll-up scenario: the process runs on 10 February or on 1 January;  *)
(* payments and balance checks are recorded on days before the year, in    *)
(* the year before the month, in the month, on today and after today, and  *)
(* the roll-up is read.                                                    *)
(***************************************************************************)
NextMortgage ==
    \/ on_startup
    \/ \E day \in {Date(2025, 12, 31), Date(2026, 1, 1), Date(2026, 1, 31),
                   Date(2026, 2, 1), Date(2026, 2, 10), Date(2026, 2, 11)} :
         \/ \E amount \in {250, 500} :
              add_principal_payment([day |-> iso_date(day), amount |-> amount,
                                     note |-> None])
         \/ \E balance \in {310000, 320000} :
              add_balance_check([day |-> iso_date(day),
                                 principal_balance |-> balance, note |-> None])
    \/ mortgage_summary

SpecMortgage ==
    InitOn({Date(2026, 2, 10), Date(2026, 1, 1)}) /\ [][NextMortgage]_vars

\* the principal payments dated from lo to hi, as dates
PaymentsFrom(lo, hi) ==
    {doc \in mortgage_events :
       /\ doc.kind = "principal_payment"
       /\ parse_date(doc.day) >= lo /\ parse_date(doc.day) <= hi}

\* C22: the mortgage roll-up returns as latest_principal_balance the amount
\* of a balance_check event with maximal day (null when there is none), as
\* principal_paid_extra_ytd the sum of the amounts of the principal_payment
\* events dated from 1 January of today's year to today, and as
\* principal_paid_extra_month the sum over the first of today's month to
\* today; balance_check events and events dated after today or before the
\* window do not contribute, and the month sum never exceeds the
\* year-to-date sum.
C22_MortgageRollUp ==
    call.op = "mortgage_summary" =>
      LET balances == {doc \in mortgage_events : doc.kind = "balance_check"}
          y == DateYear(today)
          m == DateMonth(today)
      IN  /\ call.status = 200
          /\ IF balances = {}
             THEN call.body.latest_principal_balance = {}
             ELSE \E doc \in balances :
                    /\ \A other \in balances :
                         parse_date(other.day) <= parse_date(doc.day)
                    /\ call.body.latest_principal_balance = {doc.amount}
          /\ call.body.principal_paid_extra_ytd =
               SumAmount(PaymentsFrom(Date(y, 1, 1), today))
          /\ call.body.principal_paid_extra_month =
               SumAmount(PaymentsFrom(Date(y, m, 1), today))
          /\ call.body.principal_paid_extra_month
               <= call.body.principal_paid_extra_ytd

\* on 10 February the roll-up was read over a balance check of February
\* and a payment of January: the balance is reported, the year-to-date sum
\* is the January payment and the month sum is zero
C22_Witness ==
    /\ call.op = "mortgage_summary"
    /\ today = Date(2026, 2, 10)
    /\ \E doc \in mortgage_events :
         doc.kind = "balance_check" /\ doc.day = Text(2026, 2, 1)
    /\ \E doc \in mortgage_events :
         doc.kind = "principal_payment" /\ doc.day = Text(2026, 1, 31)
    /\ call.body.latest_principal_balance # {}
    /\ call.body.principal_paid_extra_ytd > 0
    /\ call.body.principal_paid_extra_month = 0

\* on 10 February the roll-up was read over a payment of the year before
\* and a payment dated after today: both sums are zero
C22_WitnessOutside ==
    /\ call.op = "mortgage_summary"
    /\ today = Date(2026, 2, 10)
    /\ \E doc \in mortgage_events :
         doc.kind = "principal_payment" /\ doc.day = Text(2025, 12, 31)
    /\ \E doc \in mortgage_events :
         doc.kind = "principal_payment" /\ doc.day = Text(2026, 2, 11)
    /\ call.body.principal_paid_extra_ytd = 0

(***************************************************************************)
(* The gift listing of one month.                                          *)
(***************************************************************************)
GiftEntry(doc) ==
    [id |-> doc._id, day |-> doc.day, description |-> doc.description,
     amount |-> doc.amount, created_at |-> doc.created_at]

\* date(year, month, 1) and the first of the following month raise
\* ValueError outside the years 1..9999, which no handler catches
list_gifts(year, month) ==
    /\ started
    /\ UNCHANGED <<started, today, now, pending, store>>
    /\ IF month < 1 \/ month > 12
       THEN call' = Reject("list_gifts", "month must be 1-12")
       ELSE IF year < 1 \/ year > 9999 \/ (month = 12 /\ year + 1 > 9999)
       THEN call' = StoreFault("list_gifts", "date")
       ELSE LET start == Date(year, month, 1)
                end == IF month = 12 THEN Date(year + 1, 1, 1) - 1
                       ELSE Date(year, month + 1, 1) - 1
            IN  \E asc \in SortedByDay(InRange(gifts, iso_date(start), iso_date(end))) :
                  call' = [op |-> "list_gifts", status |-> 200,
                           body |-> [i \in DOMAIN asc |->
                                       GiftEntry(asc[Len(asc) + 1 - i])]]

(***************************************************************************)
(* The listing scenario: records of every dated collection on the last day *)
(* of a year and on the first day of the next, gifts on the last day of    *)
(* that January as well, written in any order and read over every range    *)
(* and month.                                                              *)
(***************************************************************************)
MaxListDocs == 2

ListDays == {Date(2025, 12, 31), Date(2026, 1, 1)}

ListTexts == {Text(2025, 12, 31), Text(2026, 1, 1), BadText}

\* the store of the scenario holds fewer than MaxListDocs dated records
ListRoom ==
    Cardinality(checkins) + Cardinality(metrics) + Cardinality(photos)
      + Cardinality(mortgage_events) + Cardinality(gifts) < MaxListDocs

NextLists ==
    \/ on_startup
    \/ /\ ListRoom
       /\ \E day \in ListDays :
            upsert_checkin([day |-> iso_date(day), wakeup_5am |-> TRUE,
                            workout |-> FALSE, video_captured |-> FALSE,
                            notes |-> None])
    \/ /\ ListRoom
       /\ \E day \in ListDays :
            add_weight([day |-> iso_date(day), weight_lbs |-> 180])
    \/ /\ ListRoom
       /\ \E day \in ListDays :
            upload_photo(iso_date(day), [filename |-> "b.PNG", size |-> 1024])
    \/ /\ ListRoom
       /\ \E day \in ListDays :
            add_principal_payment([day |-> iso_date(day), amount |-> 500,
                                   note |-> None])
    \/ /\ ListRoom
       /\ \E day \in ListDays \cup {Date(2026, 1, 31)} :
            add_gift([day |-> iso_date(day), description |-> "flowers",
                      amount |-> 25])
    \/ \E start, end \in ListTexts : list_checkins(start, end)
    \/ \E start, end \in ListTexts : get_fitness_metrics(start, end)
    \/ \E start, end \in ListTexts : list_mortgage_events(start, end)
    \/ \E year \in {2025, 2026}, month \in {1, 12, 13} : list_gifts(year, month)

SpecLists == Init /\ [][NextLists]_vars

\* the list holds each record of the collection dated from lo to hi once,
\* and nothing else
ListsExactly(list, coll, lo, hi) ==
    /\ Len(list) = Cardinality({doc \in coll : parse_date(doc.day) >= lo
                                               /\ parse_date(doc.day) <= hi})
    /\ {list[i].id : i \in DOMAIN list} =
         {doc._id : doc \in {doc \in coll : parse_date(doc.day) >= lo
                                            /\ parse_date(doc.day) <= hi}}

Ascending(list) ==
    \A i, j \in DOMAIN list :
      i < j => parse_date(list[i].day) <= parse_date(list[j].day)

Descending(list) ==
    \A i, j \in DOMAIN list :
      i < j => parse_date(list[i].day) >= parse_date(list[j].day)

\* C23: list_checkins, get_fitness_metrics (metrics and photos) and
\* list_mortgage_events return exactly the stored records whose day lies in
\* the inclusive range from start to end, in non-decreasing order of day;
\* list_gifts returns exactly the gifts whose day lies in the requested
\* calendar month, in non-increasing order of day.
C23_ListsInOrder ==
    [][/\ \A start, end \in ListTexts :
            IsIsoDate(start) /\ IsIsoDate(end) =>
              LET ds == parse_date(start)
                  de == parse_date(end)
              IN  /\ call'.op = "list_checkins" /\ list_checkins(start, end) /\ ds <= de =>
                        /\ call'.status = 200
                        /\ ListsExactly(call'.body, checkins, ds, de)
                        /\ Ascending(call'.body)
                  /\ call'.op = "get_fitness_metrics" /\ get_fitness_metrics(start, end) /\ ds <= de =>
                        /\ call'.status = 200
                        /\ ListsExactly(call'.body.metrics, metrics, ds, de)
                        /\ Ascending(call'.body.metrics)
                        /\ ListsExactly(call'.body.photos, photos, ds, de)
                        /\ Ascending(call'.body.photos)
                  /\ call'.op = "list_mortgage_events" /\ list_mortgage_events(start, end) =>
                        /\ call'.status = 200
                        /\ ListsExactly(call'.body, mortgage_events, ds, de)
                        /\ Ascending(call'.body)
       /\ \A year \in {2025, 2026}, month \in {1, 12} :
            call'.op = "list_gifts" /\ list_gifts(year, month) =>
              /\ call'.status = 200
              /\ Len(call'.body) =
                   Cardinality({doc \in gifts :
                                  /\ DateYear(parse_date(doc.day)) = year
                                  /\ DateMonth(parse_date(doc.day)) = month})
              /\ {call'.body[i].id : i \in DOMAIN call'.body} =
                   {doc._id : doc \in {doc \in gifts :
                                         /\ DateYear(parse_date(doc.day)) = year
                                         /\ DateMonth(parse_date(doc.day)) = month}}
              /\ Descending(call'.body)]_vars

\* the gifts of January were listed, the one of the 31st, stored first or
\* not, before the one of the 1st
C23_Witness ==
    /\ call.op = "list_gifts" /\ call.status = 200
    /\ Len(call.body) = 2
    /\ call.body[1].day = Text(2026, 1, 31)
    /\ call.body[2].day = Text(2026, 1, 1)
    /\ call.body[1].id < call.body[2].id

\* a range read left out a stored record dated before its start and listed
\* the one in range
C23_WitnessRange ==
    /\ call.op = "list_mortgage_events" /\ call.status = 200
    /\ Len(call.body) = 1
    /\ call.body[1].day = Text(2026, 1, 1)
    /\ \E doc \in mortgage_events : doc.day = Text(2025, 12, 31)

\* metrics stored latest day first were listed earliest day first
C23_WitnessAscending ==
    /\ call.op = "get_fitness_metrics" /\ call.status = 200
    /\ Len(call.body.metrics) = 2
    /\ call.body.metrics[1].id > call.body.metrics[2].id
    /\ call.body.metrics[1].day # call.body.metrics[2].day

(***************************************************************************)
(* upsert_checkin, one store call at a time.  The day is parsed and ts is  *)
(* read before the first await; the request keeps its payload, ts and the  *)
(* document its find_one returned.                                         *)
(***************************************************************************)
\* d = parse_date(payload.day); ts = now_utc().isoformat(); the request
\* then awaits checkins.find_one
upsert_checkin_arrives(payload) ==
    /\ started
    /\ Cardinality(pending) < MaxRequests
    /\ IF ~IsIsoDate(payload.day)
       THEN /\ call' = Reject("upsert_checkin", InvalidDate)
            /\ UNCHANGED pending
       ELSE /\ pending' =
                 pending \cup {[id |-> new_id({r.id : r \in pending}),
                                op |-> "upsert_checkin", pc |-> "checkins.find_one",
                                prev |-> {}, deleted |-> <<>>, ts |-> now_utc,
                                payload |-> payload]}
            /\ UNCHANGED call
    /\ UNCHANGED <<started, today, now, store>>

\* existing = find_one({"day": iso_date(d)})
upsert_checkin_find_one(r) ==
    /\ r \in pending /\ r.op = "upsert_checkin" /\ r.pc = "checkins.find_one"
    /\ LET found == {doc \in checkins :
                       doc.day = iso_date(parse_date(r.payload.day))}
       IN  \E existing \in IF found = {} THEN {{}} ELSE {{doc} : doc \in found} :
             pending' = (pending \ {r}) \cup
                          {[r EXCEPT !.prev = existing,
                                     !.pc = IF existing # {} THEN "checkins.update_one"
                                            ELSE "checkins.insert_one"]}
    /\ UNCHANGED <<started, today, now, store, call>>

\* `if existing:` update_one({"_id": existing["_id"]}, {"$set": ...})
upsert_checkin_update_one(r) ==
    /\ r \in pending /\ r.op = "upsert_checkin" /\ r.pc = "checkins.update_one"
    /\ checkins' = {IF doc._id \in Ids(r.prev) THEN CheckinSet(doc, r.payload, r.ts)
                    ELSE doc : doc \in checkins}
    /\ pending' = Advance(r, "checkins.find_one_by_id")
    /\ UNCHANGED <<started, today, now, metrics, photos, mortgage_events, gifts,
                   trip, trip_history, settings, uploads, call>>

\* doc = find_one({"_id": existing["_id"]}) and the reply; with the
\* document gone doc is None and doc["_id"] raises
upsert_checkin_find_one_by_id(r) ==
    /\ r \in pending /\ r.op = "upsert_checkin" /\ r.pc = "checkins.find_one_by_id"
    /\ LET found == {doc \in checkins : doc._id \in Ids(r.prev)}
       IN  IF found = {}
           THEN call' = StoreFault("upsert_checkin", "doc is None")
           ELSE \E doc \in found :
                  call' = [op |-> "upsert_checkin", status |-> 200,
                           body |-> CheckIn(doc)]
    /\ pending' = pending \ {r}
    /\ UNCHANGED <<started, today, now, store>>

\* a collection with no unique index on "day": no insert_one is refused
DuplicateDayUnchecked(day) == FALSE

\* create_index("day", unique=True): insert_one of a day the collection
\* holds raises DuplicateKeyError
DuplicateDay(day) == \E doc \in checkins : doc.day = day

\* `else:` insert_one(doc_in) and the reply; DuplicateKeyError is not
\* caught and ends the request in a server error
upsert_checkin_insert_one(r) ==
    /\ r \in pending /\ r.op = "upsert_checkin" /\ r.pc = "checkins.insert_one"
    /\ LET doc_in == CheckinDocIn(new_id(Ids(checkins)), parse_date(r.payload.day),
                                  r.payload, r.ts)
       IN  IF DuplicateDay(doc_in.day)
           THEN /\ call' = StoreFault("upsert_checkin", "checkins.insert_one")
                /\ UNCHANGED checkins
           ELSE /\ checkins' = checkins \cup {doc_in}
                /\ call' = [op |-> "upsert_checkin", status |-> 200,
                            body |-> CheckIn(doc_in)]
    /\ pending' = pending \ {r}
    /\ UNCHANGED <<started, today, now, metrics, photos, mortgage_events, gifts,
                   trip, trip_history, settings, uploads>>

(***************************************************************************)
(* The concurrent check-in scenario: upserts for today and yesterday, with *)
(* the 5am flag set or not, are served one store call at a time.           *)
(***************************************************************************)
NextUpsertRace ==
    \/ on_startup
    \/ \E day \in DayTexts(1), wakeup_5am \in BOOLEAN :
         upsert_checkin_arrives([day |-> day, wakeup_5am |-> wakeup_5am,
                                 workout |-> TRUE, video_captured |-> FALSE,
                                 notes |-> None])
    \/ \E r \in pending : upsert_checkin_find_one(r)
    \/ \E r \in pending : upsert_checkin_update_one(r)
    \/ \E r \in pending : upsert_checkin_find_one_by_id(r)
    \/ \E r \in pending : upsert_checkin_insert_one(r)

SpecUpsertRace == Init /\ [][NextUpsertRace]_vars

\* C24: in every reachable state the check-in collection holds at most one
\* record per day, also when two upsert_checkin calls for the same absent
\* day interleave (both find no record, both attempt the insert): the
\* unique index on day lets one insert succeed only, and the losing request
\* ends in an error and leaves the winner's record as it is.
C24_OneRecordPerDay ==
    /\ [](\A doc, other \in checkins : doc.day = other.day => doc = other)
    /\ [][\A r \in pending :
            /\ upsert_checkin_insert_one(r)
            /\ \E doc \in checkins : doc.day = r.payload.day
            => /\ call'.status = 500
               /\ checkins' = checkins]_vars

\* two requests for today found no record, one inserted its check-in and
\* the other's insert was refused: the collection holds the one record
C24_Witness ==
    /\ call = StoreFault("upsert_checkin", "checkins.insert_one")
    /\ pending = {}
    /\ Cardinality({doc \in checkins : doc.day = iso_date(today)}) = 1

(***************************************************************************)
(* The concurrent trip scenario: trip updates, each with a payload of its  *)
(* own, arrive together and are served one store call at a time, in any    *)
(* order: one after the other, or interleaved; the trip is read between.   *)
(***************************************************************************)
\* the payload of the request numbered id
TripRacePayload(id) ==
    [ResetTrip EXCEPT !.dates = CASE id = 1 -> "Summer"
                                  [] id = 2 -> "Winter"
                                  [] OTHER -> "Autumn"]

NextTripRace ==
    \/ on_startup
    \/ /\ trip_history = {}
       /\ request_arrives("update_trip", "trip.find_one")
    \/ \E r \in pending : update_trip_find_one(r)
    \/ \E r \in pending : update_trip_update_one(r, TripRacePayload(r.id))
    \/ \E r \in pending : update_trip_insert_one(r)
    \/ \E r \in pending : update_trip_get_trip(r)
    \/ get_trip

SpecTripRace == Init /\ [][NextTripRace]_vars

\* C25 (as claimed): when update_trip calls interleave, each history
\* entry's snapshot still equals the trip state that its own write
\* overwrote, so that the history snapshots followed by the current trip
\* state list every state the trip ever held: no state is archived twice,
\* and no state that was overwritten is missing from the history (once the
\* requests are served, the current state is none of the snapshots and
\* every update has its entry).  Every update of the scenario writes a
\* state of its own.
C25_HistoryListsEveryState ==
    /\ [](/\ \A h, other \in trip_history :
               h.snapshot = other.snapshot => h = other
          /\ pending = {} =>
               \A doc \in trip, h \in trip_history : h.snapshot # TripState(doc))
    /\ [][\A r \in pending :
            update_trip_update_one(r, TripRacePayload(r.id)) => r.prev = trip]_vars

(***************************************************************************)
(* The request body of update_trip.  TripUpdate gives a field the body     *)
(* omits its default; the handler never learns which fields were sent.     *)
(***************************************************************************)
\* a parse that fills the fields the body omits from the stored trip
TripUpdateKeepingStored(body) ==
    LET stored == IF trip = {} THEN DefaultTrip(0) ELSE CHOOSE doc \in trip : TRUE
    IN  [start_date |-> Get(body, "start_date", stored.start_date),
         end_date |-> Get(body, "end_date", stored.end_date),
         dates |-> Get(body, "dates", stored.dates),
         adults_only |-> Get(body, "adults_only", stored.adults_only),
         lodging_booked |-> Get(body, "lodging_booked", stored.lodging_booked),
         childcare_confirmed |->
           Get(body, "childcare_confirmed", stored.childcare_confirmed),
         notes |-> Get(body, "notes", stored.notes)]

\* class TripUpdate(BaseModel): the payload of a JSON body
TripUpdate(body) ==
    [start_date |-> Get(body, "start_date", EmptyText),
     end_date |-> Get(body, "end_date", EmptyText),
     dates |-> Get(body, "dates", ""),
     adults_only |-> Get(body, "adults_only", TRUE),
     lodging_booked |-> Get(body, "lodging_booked", FALSE),
     childcare_confirmed |-> Get(body, "childcare_confirmed", FALSE),
     notes |-> Get(body, "notes", "")]

\* the bodies of the tests: the calendar test's full body and the legacy
\* test's body without structured dates and childcare; a body with nothing
\* but the structured dates and flags; a body with null texts
TripBodies ==
    {[start_date |-> TripEarly, end_date |-> TripLate,
      dates |-> "Calendar test trip", adults_only |-> TRUE,
      lodging_booked |-> TRUE, childcare_confirmed |-> FALSE,
      notes |-> "calendar"],
     [dates |-> "Summer 2026 - TBD", adults_only |-> TRUE,
      lodging_booked |-> FALSE, notes |-> "legacy"],
     [start_date |-> TripEarly, end_date |-> TripLate, adults_only |-> FALSE,
      childcare_confirmed |-> TRUE],
     [start_date |-> NoneText, dates |-> None, lodging_booked |-> TRUE]}

NextTripBody ==
    \/ on_startup
    \/ Tick
    \/ get_trip
    \/ \E body \in TripBodies : update_trip(TripUpdate(body))
    \/ trip_document_missing

SpecTripBody == Init /\ [][NextTripBody]_vars

\* the trip state a body stands for: its values, null texts as empty, and
\* the defaults of the fields it omits
StateOfBody(body) ==
    [id |-> "default",
     start_date |-> IF "start_date" \in DOMAIN body /\ body.start_date # NoneText
                    THEN body.start_date ELSE EmptyText,
     end_date |-> IF "end_date" \in DOMAIN body /\ body.end_date # NoneText
                  THEN body.end_date ELSE EmptyText,
     dates |-> IF "dates" \in DOMAIN body /\ body.dates # None
               THEN body.dates ELSE "",
     adults_only |-> IF "adults_only" \in DOMAIN body THEN body.adults_only
                     ELSE TRUE,
     lodging_booked |-> IF "lodging_booked" \in DOMAIN body
                        THEN body.lodging_booked ELSE FALSE,
     childcare_confirmed |-> IF "childcare_confirmed" \in DOMAIN body
                             THEN body.childcare_confirmed ELSE FALSE,
     notes |-> IF "notes" \in DOMAIN body /\ body.notes # None
               THEN body.notes ELSE "",
     updated_at |-> 0]

NextSettings ==
    \/ on_startup
    \/ Tick
    \/ singletons_missing
    \/ get_settings
    \/ \E key \in {None, "SG.key", "SG.other"}, sender \in {None, "me@example.com"},
          enabled \in BOOLEAN :
         update_settings([ResetSettings EXCEPT !.sendgrid_api_key = key,
                                               !.sendgrid_sender_email = sender,
                                               !.email_enabled = enabled])

SpecSettings == Init /\ [][NextSettings]_vars

\* the credentials a settings document may hold
StoredKeys == {"", "SG.key", "SG.other", "SG.third"}

\* the settings collection with the credential k in place of the stored one
WithKey(k) ==
    {[f \in DOMAIN doc \cup {"sendgrid_api_key"} |->
        IF f = "sendgrid_api_key" THEN k ELSE doc[f]] : doc \in settings}

\* the fields update_settings has $set, read from the document it left
FieldsSet(doc) ==
    [f \in {"sendgrid_api_key", "sendgrid_sender_email",
            "reminder_recipient_email", "weekly_review_day",
            "weekly_review_hour_local", "monthly_gift_day", "email_enabled",
            "updated_at"} |-> doc[f]]

\* C27: the stored API credential never leaves the server: for any two
\* store states that differ only in the settings document's
\* sendgrid_api_key, get_settings and update_settings return identical
\* responses, and no response field carries the key.  The request served
\* on the store as it is, is served again on the store with each other
\* credential in its place, and the two replies compared.
C27_KeyStaysOnServer ==
    [][/\ get_settings =>
            \A k \in StoredKeys :
              call'.body =
                SettingsResponse(CHOOSE doc \in SettingsEnsured(WithKey(k), now_utc) :
                                   TRUE)
       /\ call'.op = "update_settings" /\ call' # call =>
            \A k \in StoredKeys, written \in settings' :
              call'.body =
                SettingsResponse(CHOOSE doc \in SetFields(WithKey(k), FieldsSet(written)) :
                                   TRUE)
       /\ call'.op \in {"get_settings", "update_settings"} =>
            /\ "sendgrid_api_key" \notin DOMAIN call'.body
            /\ \A doc \in settings' :
                 Get(doc, "sendgrid_api_key", "") # "" =>
                   \A f \in {"id", "sendgrid_sender_email",
                             "reminder_recipient_email", "weekly_review_day"} :
                     call'.body[f] # doc.sendgrid_api_key]_vars

\* the settings were read while the document held a credential, a sender
\* address and the other updated fields
C27_Witness ==
    /\ call.op = "get_settings" /\ call.status = 200
    /\ \E doc \in settings : Get(doc, "sendgrid_api_key", "") = "SG.key"
    /\ call.body.sendgrid_sender_email = "me@example.com"
    /\ call.body.weekly_review_day = "Mon"

\* an update that stored a credential was answered
C27_WitnessUpdate ==
    /\ call.op = "update_settings" /\ call.status = 200
    /\ \E doc \in settings : Get(doc, "sendgrid_api_key", "") = "SG.other"

=============================================================================
